---- MODULE Spec2Model ----
(***************************************************************************)
(* tiny-crm: the persistence gateway (repository.go) over a SQLite store   *)
(* reached through gorm, and the HTTP handlers (main.go) that call it.     *)
(*                                                                         *)
(* The store is the six tables AutoMigrate creates.  A table is a set of   *)
(* rows, each row a record with its primary key in field id.  Money is     *)
(* counted in whole units.                                                 *)
(***************************************************************************)
EXTENDS Integers, Sequences, FiniteSets, TLC

\* ---------------------------------------------------------------- bounds
MaxCompanies == 2   \* companies ever created (Spec)
MaxLines == 1       \* lines carried by one request body
MaxInvoices == 2    \* invoices ever created (SpecLines)
MaxLineId == 2      \* largest id of an invoice line (SpecLines)
MaxAmount == 2      \* largest price, quantity, discount and penalty (SpecTotal)
MaxTotalLines == 2  \* lines of an invoice whose total is computed (SpecTotal)
MaxNumber == 12     \* largest size of an invoice number (SpecIdent)
MaxIdentUUID == 17  \* largest UUID of an identified invoice (SpecIdent)

VARIABLES
    foreignKeys,    \* PRAGMA foreign_keys of the connection behind Repository.db
    db,             \* the committed content of the store
    uuidSeq,        \* how many UUIDs uuid.New() has handed out
    minted,         \* history: id and stored uuid of each invoice created without a uuid
    last,           \* the last request served, see Reply
    tx,             \* the UpdateInvoice transaction in flight, see NoTx
    rd,             \* the GetInvoice in flight, see NoRead
    view,           \* an invoice in memory and the total computed from it
    req,            \* the request the mux holds, see NoReq
    users,          \* the stored users, by username: the password hash of each
    deleting        \* the DeleteInvoice or DeleteRemitInformation in flight, see NoDelete

vars == <<foreignKeys, db, uuidSeq, minted, last, tx, rd, view, req, users, deleting>>

\* ------------------------------------------------------------ the schema
ZeroUUID == 0

Tables == {"companies", "products", "remits", "remitLines", "invoices", "invoiceLines"}

EmptyStore ==
    [ companies |-> {}, products |-> {}, remits |-> {}, remitLines |-> {},
      invoices |-> {}, invoiceLines |-> {},
      seq |-> [t \in Tables |-> 0] ]

HasId(table, id) == \E r \in table : r.id = id

Row(table, id) == CHOOSE r \in table : r.id = id

Max(a, b) == IF a >= b THEN a ELSE b

\* INTEGER PRIMARY KEY AUTOINCREMENT: a row inserted without an id gets one more
\* than the largest id the table ever held.
NextId(s, t) ==
    LET used == {r.id : r \in s[t]}
        top == IF used = {} THEN 0 ELSE CHOOSE m \in used : \A u \in used : u <= m
    IN  Max(s.seq[t], top) + 1

\* An INSERT that stores the row under the id of the request, as it is.
InsertKeepingId(s, t, row) ==
    [store |-> [s EXCEPT ![t] = @ \cup {row}], err |-> FALSE, id |-> row.id]

\* INSERT of one row; a row whose id is 0 is given NextId.  A row whose id is
\* already stored violates the primary key.
Insert(s, t, row) ==
    LET id == IF row.id = 0 THEN NextId(s, t) ELSE row.id
        r == [row EXCEPT !.id = id]
    IN  IF HasId(s[t], id)
        THEN [store |-> s, err |-> TRUE, id |-> id]
        ELSE [store |-> [s EXCEPT ![t] = @ \cup {r},
                                  !.seq[t] = Max(@, id)],
              err |-> FALSE, id |-> id]

\* DELETE ... WHERE id = ?, with no constraint looked at.
Remove(s, t, ids) == [s EXCEPT ![t] = {r \in @ : r.id \notin ids}]

\* --------------------------------------------- the foreign keys of the schema
\* AutoMigrate writes these constraints into the tables; SQLite enforces them
\* only on a connection whose foreign_keys pragma is on.
\*   remit_information_lines.remit_information_id -> remit_informations  (no action)
\*   invoices.remit_information_id -> remit_informations                 (cascade)
\*   invoices.company_id, invoices.client_id -> companies                (cascade)
\*   invoice_lines.invoice_id -> invoices                                (no action)
\*   invoice_lines.product_id -> products                                (restrict)
\* The CASCADE written on InvoiceLine.Invoice and RemitInformationLine.RemitInformation
\* is dropped by gorm: the has-many side (Invoice.InvoiceLines, RemitInformation.Lines)
\* owns the constraint and names no action.

InvoicesOfRemit(s, id) == {i.id : i \in {j \in s.invoices : j.remit_information_id = id}}

InvoicesOfCompany(s, id) ==
    {i.id : i \in {j \in s.invoices : j.company_id = id \/ j.client_id = id}}

LinesOfInvoices(s, ids) == {l \in s.invoiceLines : l.invoice_id \in ids}

LinesOfProduct(s, id) == {l \in s.invoiceLines : l.product_id = id}

LinesOfRemit(s, id) == {l \in s.remitLines : l.remit_information_id = id}

InvoiceRefsOk(s, fk, inv) ==
    fk => /\ HasId(s.remits, inv.remit_information_id)
          /\ HasId(s.companies, inv.company_id)
          /\ HasId(s.companies, inv.client_id)

InvoiceLineRefsOk(s, fk, l) ==
    fk => HasId(s.invoices, l.invoice_id) /\ HasId(s.products, l.product_id)

RemitLineRefsOk(s, fk, l) == fk => HasId(s.remits, l.remit_information_id)

\* ------------------------------------------------------ Company and Product
\* A create that stores no address.
CreateCompanyNoAddress(s, company) ==
    Insert(s, "companies", [company EXCEPT !.address = ""])

\* db.Create(company)
CreateCompany(s, company) == Insert(s, "companies", company)

\* db.Create(product)
CreateProduct(s, product) == Insert(s, "products", product)

\* db.Delete(&Company{}, id): Company has no association of its own, so this is
\* the one DELETE; an enforced cascade takes the invoices that name the company,
\* and fails as a whole when one of those still has lines.
DeleteCompany(s, fk, id) ==
    LET invs == InvoicesOfCompany(s, id)
    IN  IF ~fk THEN [store |-> Remove(s, "companies", {id}), err |-> FALSE]
        ELSE IF HasId(s.companies, id) /\ LinesOfInvoices(s, invs) # {}
        THEN [store |-> s, err |-> TRUE]
        ELSE [store |-> Remove(Remove(s, "companies", {id}), "invoices",
                               IF HasId(s.companies, id) THEN invs ELSE {}),
              err |-> FALSE]

\* db.Delete(&Product{}, id): refused by an enforced RESTRICT while a line names it.
DeleteProduct(s, fk, id) ==
    IF fk /\ HasId(s.products, id) /\ LinesOfProduct(s, id) # {}
    THEN [store |-> s, err |-> TRUE]
    ELSE [store |-> Remove(s, "products", {id}), err |-> FALSE]

\* --------------------------------------------------- gorm's has-many save
\* SaveAfterAssociations: every element gets the parent's key, and an element
\* whose non-zero primary key was already met in the same slice is skipped.
HasManyElems(rows, fkcol, pid) ==
    LET keep == {i \in 1..Len(rows) :
                    rows[i].id = 0 \/ \A j \in 1..(i - 1) : rows[j].id # rows[i].id}
        F[i \in 0..Len(rows)] ==
            IF i = 0 THEN << >>
            ELSE IF i \in keep
                 THEN Append(F[i - 1], [rows[i] EXCEPT ![fkcol] = pid])
                 ELSE F[i - 1]
    IN  F[Len(rows)]

ChildRefsOk(s, fk, t, row, conflict) ==
    IF t = "invoiceLines"
    THEN IF conflict THEN fk => HasId(s.invoices, row.invoice_id)
         ELSE InvoiceLineRefsOk(s, fk, row)
    ELSE RemitLineRefsOk(s, fk, row)

\* INSERT INTO <t> ... VALUES (row 1), (row 2), ...
\*   ON CONFLICT (id) DO UPDATE SET <fkcol> = excluded.<fkcol>
\* row by row: a stored row with the same id keeps its other columns and is moved
\* to the new parent.  The rows come back with the ids the store gave them.
RECURSIVE UpsertRows(_, _, _, _, _, _)
UpsertRows(s, fk, t, fkcol, rows, i) ==
    IF i > Len(rows) THEN [store |-> s, err |-> FALSE, rows |-> rows]
    ELSE LET row == rows[i]
             conflict == row.id # 0 /\ HasId(s[t], row.id)
             id == IF row.id = 0 THEN NextId(s, t) ELSE row.id
             moved == [s EXCEPT ![t] = {IF r.id = id THEN [r EXCEPT ![fkcol] = row[fkcol]]
                                        ELSE r : r \in @}]
             s1 == IF conflict THEN moved ELSE Insert(s, t, row).store
         IN  IF ~ChildRefsOk(s, fk, t, row, conflict)
             THEN [store |-> s, err |-> TRUE, rows |-> rows]
             ELSE UpsertRows(s1, fk, t, fkcol, [rows EXCEPT ![i].id = id], i + 1)

SaveHasMany(s, fk, t, fkcol, pid, rows) ==
    UpsertRows(s, fk, t, fkcol, HasManyElems(rows, fkcol, pid), 1)

\* --------------------------------------------------------- RemitInformation
RemitRow(remit) == [id |-> remit.id, name |-> remit.name]

RemitLineRow(l) ==
    [id |-> l.id, key |-> l.key, value |-> l.value,
     remit_information_id |-> l.remit_information_id]

RemitLineRows(lines) == [i \in 1..Len(lines) |-> RemitLineRow(lines[i])]

\* db.Create(remit): the row, then its Lines, in gorm's default transaction.
CreateRemitInformation(s, fk, remit) ==
    LET ins == Insert(s, "remits", RemitRow(remit))
        kids == SaveHasMany(ins.store, fk, "remitLines", "remit_information_id",
                            ins.id, RemitLineRows(remit.lines))
    IN  IF ins.err \/ kids.err
        THEN [store |-> s, err |-> TRUE, id |-> 0]
        ELSE [store |-> kids.store, err |-> FALSE, id |-> ins.id]

\* A DeleteRemitInformation that forgets the lines.
KeepRemitLines(s, id) == s

\* DELETE FROM remit_information_lines WHERE remit_information_id = ?
DeleteRemitLinesWhere(s, id) ==
    [s EXCEPT !.remitLines = {l \in @ : l.remit_information_id # id}]

\* db.Delete(&RemitInformation{}, id): an enforced cascade takes the invoices that
\* name the remit; the statement fails as a whole when a remit line still names
\* the remit or one of those invoices still has lines.
DeleteRemitRow(s, fk, id) ==
    LET invs == InvoicesOfRemit(s, id)
    IN  IF ~fk \/ ~HasId(s.remits, id)
        THEN [store |-> Remove(s, "remits", {id}), err |-> FALSE]
        ELSE IF LinesOfRemit(s, id) # {} \/ LinesOfInvoices(s, invs) # {}
        THEN [store |-> s, err |-> TRUE]
        ELSE [store |-> Remove(Remove(s, "remits", {id}), "invoices", invs),
              err |-> FALSE]

\* Repository.DeleteRemitInformation: two statements on r.db, each committed on
\* its own; the first one's deletion stays when the second fails.
DeleteRemitInformation(s, fk, id) ==
    LET s1 == DeleteRemitLinesWhere(s, id)
    IN  DeleteRemitRow(s1, fk, id)

\* ------------------------------------------------------------------ Invoice
InvoiceRow(inv) ==
    [id |-> inv.id, uuid |-> inv.uuid, discount |-> inv.discount,
     penalty |-> inv.penalty, remit_information_id |-> inv.remit_information_id,
     company_id |-> inv.company_id, client_id |-> inv.client_id]

\* Quantity carries `default:1`: a zero quantity is written as 1 when the line is
\* created.
InvoiceLineRow(l) ==
    [id |-> l.id, invoice_id |-> 0, product_id |-> l.product_id,
     quantity |-> IF l.quantity = 0 THEN 1 ELSE l.quantity]

InvoiceLineRows(lines) == [i \in 1..Len(lines) |-> InvoiceLineRow(lines[i])]

\* A hook that leaves the uuid of the request.
KeepUUID(invoice, fresh) == invoice

\* Invoice.BeforeCreate; fresh is what uuid.New() returns.
BeforeCreate(invoice, fresh) ==
    IF invoice.uuid = ZeroUUID THEN [invoice EXCEPT !.uuid = fresh] ELSE invoice

\* gorm's create of an Invoice: the hook, the row, then InvoiceLines.  With
\* upsert the row is written ON CONFLICT (id) DO UPDATE (all columns).
GormCreateInvoice(s, fk, invoice, hooks, upsert, fresh) ==
    LET inv == IF hooks THEN BeforeCreate(invoice, fresh) ELSE invoice
        id == IF inv.id = 0 THEN NextId(s, "invoices") ELSE inv.id
        row == [InvoiceRow(inv) EXCEPT !.id = id]
        clash == HasId(s.invoices, id)
        s1 == IF clash
              THEN [s EXCEPT !.invoices = (@ \ {Row(@, id)}) \cup {row}]
              ELSE Insert(s, "invoices", row).store
        kids == SaveHasMany(s1, fk, "invoiceLines", "invoice_id", id,
                            InvoiceLineRows(inv.invoice_lines))
    IN  IF (clash /\ ~upsert) \/ ~InvoiceRefsOk(s, fk, inv) \/ kids.err
        THEN [store |-> s, err |-> TRUE, id |-> 0, uuid |-> ZeroUUID]
        ELSE [store |-> kids.store, err |-> FALSE, id |-> id, uuid |-> inv.uuid]

\* Repository.CreateInvoice: db.Create(invoice)
CreateInvoice(s, fk, invoice, fresh) ==
    GormCreateInvoice(s, fk, invoice, TRUE, FALSE, fresh)

\* db.Save(invoice).  A zero primary key is a create.  Otherwise every column is
\* updated WHERE id = ?, the lines are upserted, and when the UPDATE touched no
\* row the invoice is inserted, without hooks.
Save(s, fk, invoice, fresh) ==
    LET exists == HasId(s.invoices, invoice.id)
        s1 == IF exists
              THEN [s EXCEPT !.invoices = (@ \ {Row(@, invoice.id)}) \cup {InvoiceRow(invoice)}]
              ELSE s
        kids == SaveHasMany(s1, fk, "invoiceLines", "invoice_id", invoice.id,
                            InvoiceLineRows(invoice.invoice_lines))
        again == GormCreateInvoice(kids.store, fk,
                                   [invoice EXCEPT !.invoice_lines = kids.rows],
                                   FALSE, TRUE, fresh)
    IN  IF invoice.id = 0 THEN GormCreateInvoice(s, fk, invoice, TRUE, FALSE, fresh)
        ELSE IF (exists /\ ~InvoiceRefsOk(s, fk, invoice)) \/ kids.err
        THEN [store |-> s, err |-> TRUE, id |-> 0, uuid |-> ZeroUUID]
        ELSE IF ~exists THEN again
        ELSE [store |-> kids.store, err |-> FALSE, id |-> invoice.id,
              uuid |-> invoice.uuid]

\* A DeleteInvoice that forgets the lines.
KeepInvoiceLines(s, id) == s

\* DELETE FROM invoice_lines WHERE invoice_id = ?
DeleteInvoiceLinesWhere(s, id) ==
    [s EXCEPT !.invoiceLines = {l \in @ : l.invoice_id # id}]

\* A transaction that keeps what fn did even when fn returns an error.
NoRollback(before, done) == done

\* db.Transaction(fn): what fn did is kept when fn returns nil and undone when it
\* returns an error.
Transaction(before, done) ==
    IF done.err THEN [done EXCEPT !.store = before] ELSE done

\* Repository.UpdateInvoice
UpdateInvoice(s, fk, invoice, fresh) ==
    Transaction(s, Save(DeleteInvoiceLinesWhere(s, invoice.id), fk, invoice, fresh))

\* db.Delete(&Invoice{}, id): refused by the enforced constraint of invoice_lines
\* while a line names the invoice.
DeleteInvoiceRow(s, fk, id) ==
    IF fk /\ HasId(s.invoices, id) /\ LinesOfInvoices(s, {id}) # {}
    THEN [store |-> s, err |-> TRUE]
    ELSE [store |-> Remove(s, "invoices", {id}), err |-> FALSE]

\* Repository.DeleteInvoice: two statements on r.db, each committed on its own.
DeleteInvoice(s, fk, id) ==
    LET s1 == DeleteInvoiceLinesWhere(s, id)
    IN  DeleteInvoiceRow(s1, fk, id)

\* ------------------------------------------------------------------- reads
ZeroProduct == [id |-> 0, name |-> "", price |-> 0]

ZeroCompany == [id |-> 0, name |-> "", document |-> "", address |-> ""]

ZeroRemit == [id |-> 0, name |-> "", Lines |-> << >>]

\* The rows of a result set, in primary-key order.
RECURSIVE OrderById(_)
OrderById(rows) ==
    IF rows = {} THEN << >>
    ELSE LET m == CHOOSE r \in rows : \A q \in rows : r.id <= q.id
         IN  <<m>> \o OrderById(rows \ {m})

\* A Preload that loads nothing.
PreloadNothing(table, id, zero) == zero

Preload(table, id, zero) == IF HasId(table, id) THEN Row(table, id) ELSE zero

\* A load of the lines without their products.
LoadLineWithoutProduct(s, l) ==
    [id |-> l.id, invoice_id |-> l.invoice_id, product_id |-> l.product_id,
     quantity |-> l.quantity, Product |-> ZeroProduct]

LoadLine(s, l) ==
    [id |-> l.id, invoice_id |-> l.invoice_id, product_id |-> l.product_id,
     quantity |-> l.quantity, Product |-> Preload(s.products, l.product_id, ZeroProduct)]

\* Preload("InvoiceLines.Product") over the rows ls of invoice_lines.
LoadLines(s, ls) ==
    LET sq == OrderById(ls)
    IN  [i \in 1..Len(sq) |-> LoadLine(s, sq[i])]

LoadRemit(s, id) ==
    IF HasId(s.remits, id)
    THEN [id |-> id, name |-> Row(s.remits, id).name,
          Lines |-> OrderById(LinesOfRemit(s, id))]
    ELSE ZeroRemit

\* The aggregate the four Preload calls of GetInvoice and GetInvoices build
\* around one invoices row.
LoadInvoice(s, row) ==
    [id |-> row.id, uuid |-> row.uuid, discount |-> row.discount,
     penalty |-> row.penalty, remit_information_id |-> row.remit_information_id,
     company_id |-> row.company_id, client_id |-> row.client_id,
     InvoiceLines |-> LoadLines(s, LinesOfInvoices(s, {row.id})),
     RemitInformation |-> LoadRemit(s, row.remit_information_id),
     Company |-> Preload(s.companies, row.company_id, ZeroCompany),
     Client |-> Preload(s.companies, row.client_id, ZeroCompany)]

NoInvoice == [id |-> 0]

\* Repository.GetInvoice
GetInvoice(s, id) ==
    IF HasId(s.invoices, id)
    THEN [err |-> FALSE, invoice |-> LoadInvoice(s, Row(s.invoices, id))]
    ELSE [err |-> TRUE, invoice |-> NoInvoice]

\* db.First(&row, id): the row with that primary key, or ErrRecordNotFound.
First(table, id, zero) ==
    IF HasId(table, id) THEN [err |-> FALSE, row |-> Row(table, id)]
    ELSE [err |-> TRUE, row |-> zero]

\* Repository.GetCompany
GetCompany(s, id) == First(s.companies, id, ZeroCompany)

\* Repository.GetProduct
GetProduct(s, id) == First(s.products, id, ZeroProduct)

\* Repository.GetRemitInformation: Preload("Lines").First(&remit, id)
GetRemitInformation(s, id) == [err |-> ~HasId(s.remits, id), row |-> LoadRemit(s, id)]

\* db.Find(&rows): every row of the table.  fault: the store refuses the
\* statement (the file is locked or cannot be read); Find then returns the error
\* and no row.
Find(table, fault) ==
    [err |-> fault, rows |-> IF fault THEN << >> ELSE OrderById(table)]

\* Repository.GetCompanies
GetCompanies(s, fault) == Find(s.companies, fault)

\* Repository.GetProducts
GetProducts(s, fault) == Find(s.products, fault)

\* Repository.GetRemitInformations: Preload("Lines").Find(&remits)
GetRemitInformations(s, fault) ==
    LET found == Find(s.remits, fault)
    IN  [err |-> found.err,
         rows |-> [i \in 1..Len(found.rows) |-> LoadRemit(s, found.rows[i].id)]]

\* Repository.GetInvoices: the four Preload calls around Find(&invoices)
GetInvoices(s, fault) ==
    LET found == Find(s.invoices, fault)
    IN  [err |-> found.err,
         rows |-> [i \in 1..Len(found.rows) |-> LoadInvoice(s, found.rows[i])]]

\* ------------------------------------------------------------------ db.Save
\* A save that, like db.Updates, writes only the columns whose value is not zero.
SaveRowNonZero(s, t, row) ==
    LET zero == IF t = "companies" THEN ZeroCompany ELSE ZeroProduct
        old == Row(s[t], row.id)
        new == [f \in DOMAIN row |-> IF row[f] = zero[f] THEN old[f] ELSE row[f]]
    IN  IF row.id # 0 /\ HasId(s[t], row.id)
        THEN [store |-> [s EXCEPT ![t] = (@ \ {old}) \cup {new}],
              err |-> FALSE, id |-> row.id]
        ELSE Insert(s, t, row)

\* db.Save(row) of a row without associations.  A zero primary key is a create.
\* Otherwise every column is updated WHERE id = ?, and when the UPDATE touched no
\* row the row is inserted.
SaveRow(s, t, row) ==
    IF row.id # 0 /\ HasId(s[t], row.id)
    THEN [store |-> [s EXCEPT ![t] = (@ \ {Row(@, row.id)}) \cup {row}],
          err |-> FALSE, id |-> row.id]
    ELSE Insert(s, t, row)

\* Repository.UpdateCompany
UpdateCompany(s, company) == SaveRow(s, "companies", company)

\* Repository.UpdateProduct
UpdateProduct(s, product) == SaveRow(s, "products", product)

\* Repository.UpdateRemitInformation: db.Save(remit).  The row is updated and the
\* Lines are upserted; when the UPDATE touched no row the remit is then created.
UpdateRemitInformation(s, fk, remit) ==
    LET exists == HasId(s.remits, remit.id)
        s1 == IF exists
              THEN [s EXCEPT !.remits = (@ \ {Row(@, remit.id)}) \cup {RemitRow(remit)}]
              ELSE s
        kids == SaveHasMany(s1, fk, "remitLines", "remit_information_id", remit.id,
                            RemitLineRows(remit.lines))
    IN  IF remit.id = 0 THEN CreateRemitInformation(s, fk, remit)
        ELSE IF kids.err THEN [store |-> s, err |-> TRUE, id |-> 0]
        ELSE IF ~exists
        THEN CreateRemitInformation(kids.store, fk, [remit EXCEPT !.lines = kids.rows])
        ELSE [store |-> kids.store, err |-> FALSE, id |-> remit.id]

\* ------------------------------------------------------- derived values
\* InvoiceLine.Total
InvoiceLineTotal(il) == il.Product.price * il.quantity

\* Invoice.SubTotal: the loop over i.InvoiceLines
SubTotal(i) ==
    LET acc[k \in 0..Len(i.InvoiceLines)] ==
            IF k = 0 THEN 0 ELSE acc[k - 1] + InvoiceLineTotal(i.InvoiceLines[k])
    IN  acc[Len(i.InvoiceLines)]

\* A total that adds the discount.
TotalAddingDiscount(i) == SubTotal(i) + i.discount + i.penalty

\* Invoice.Total
Total(i) == SubTotal(i) - i.discount + i.penalty

\* Invoice.Number is a *int: nil, or a pointer to a number.
NilNumber == [set |-> FALSE, value |-> 0]

NumberOf(n) == [set |-> TRUE, value |-> n]

Characters == <<"0", "1", "2", "3", "4", "5", "6", "7", "8", "9", "a", "b", "c", "d", "e", "f">>

RECURSIVE FormatUint(_)
FormatUint(n) ==
    IF n < 10 THEN <<Characters[n + 1]>>
    ELSE FormatUint(n \div 10) \o <<Characters[(n % 10) + 1]>>

\* strconv.Itoa: the decimal digits, after a minus sign for a negative number.
Itoa(n) == IF n < 0 THEN <<"-">> \o FormatUint(0 - n) ELSE FormatUint(n)

\* The hexadecimal digit of u at place i, counted from the right: the model's
\* UUIDs are the numbers below 16^7, all other digits of the 32 are zero.
Nibble(u, i) == IF i < 7 THEN (u \div (16 ^ i)) % 16 ELSE 0

\* uuid.UUID.String: the 32 hexadecimal digits in groups of 8, 4, 4, 4 and 12,
\* hyphens between.
UUIDString(u) ==
    LET hex == [p \in 1..32 |-> Characters[Nibble(u, 32 - p) + 1]]
    IN  SubSeq(hex, 1, 8) \o <<"-">> \o SubSeq(hex, 9, 12) \o <<"-">>
          \o SubSeq(hex, 13, 16) \o <<"-">> \o SubSeq(hex, 17, 20) \o <<"-">>
          \o SubSeq(hex, 21, 32)

\* An identification that takes every number that is set, zero included.
IdentificationOfAnyNumber(i) ==
    IF i.number.set THEN Itoa(i.number.value) ELSE UUIDString(i.uuid)

\* Invoice.Identification
Identification(i) ==
    IF i.number.set /\ i.number.value # 0
    THEN Itoa(i.number.value)
    ELSE UUIDString(i.uuid)

\* ----------------------------------------------------------------- handlers
\* What is remembered of the last request served: the handler, the id it acted
\* on, the response status, the child lines its target had before the call, the
\* lines of the request body or the value a read returned, and what the handler
\* wrote to the ResponseWriter besides the status, in order.
Reply(op, id, status, before, body, sent) ==
    [op |-> op, id |-> id, status |-> status, before |-> before, body |-> body,
     sent |-> sent]

NoRequest == Reply("none", 0, 0, {}, << >>, << >>)

\* http.Error writes the message of the error; json.NewEncoder(w).Encode writes
\* the value.
ErrorText == <<"error">>

Json == <<"json">>

\* What a handler that returns after http.Error has written.
Sent(err) == IF err THEN ErrorText ELSE Json

\* w.WriteHeader alone writes no body.
SentByDelete(err) == IF err THEN ErrorText ELSE << >>

\* The store stays within the limits lim of the specification being explored.
Bounded(s, lim) == \A t \in Tables : s.seq[t] <= lim[t]

\* A request body that does not decode as JSON, and a path id that
\* strconv.ParseUint refuses.
Malformed == [malformed |-> TRUE]

\* A request body that is a JSON value followed by text that is no JSON.
Trailing(value) == [first |-> value]

\* The body as a whole is a JSON text.
WellFormed(body) == "malformed" \notin DOMAIN body /\ "first" \notin DOMAIN body

\* json.NewDecoder(r.Body).Decode(&v) reads the first JSON value of the body and
\* stops there: it fails when the body does not start with one, and never looks
\* at what follows it.
Decodes(body) == "malformed" \notin DOMAIN body

Decoded(body) == IF "first" \in DOMAIN body THEN body.first ELSE body

NotANumber == -1

\* A path id that is a decimal number above 4294967295, the largest of 32 bits.
\* The number itself is not written out: it stands for all of them.
TooLarge == -2

\* The path id is a decimal number, whatever its size.
Numeric(id) == id # NotANumber

\* A parse of 64 bits, which takes the numbers above 4294967295 too.
ParsesAnySize(id) == Numeric(id)

\* strconv.ParseUint(s, 10, 32) takes the decimal numbers of at most 32 bits and
\* refuses every other text, a larger number included.
Parses(id) == Numeric(id) /\ id # TooLarge

\* A delete that answers 204 whatever the headers.
DeletedNoContent(hx) == 204

\* The status of a served delete: an HTMX request is answered 200, any other 204.
Deleted(hx) == IF hx THEN 200 ELSE 204

createCompany(bodies, lim) ==
    /\ \E company \in bodies :
         IF ~Decodes(company)
         THEN /\ db' = db
              /\ last' = Reply("createCompany", 0, 400, {}, << >>, ErrorText)
         ELSE \E r \in {CreateCompany(db, Decoded(company))} :
                  /\ Bounded(r.store, lim)
                  /\ db' = r.store
                  /\ last' = Reply("createCompany", r.id, IF r.err THEN 500 ELSE 201,
                                   {}, << >>, Sent(r.err))
    /\ UNCHANGED <<foreignKeys, uuidSeq, minted, tx, rd, view, req, users, deleting>>

deleteCompany(ids, hxs) ==
    /\ \E id \in ids, hx \in hxs :
         IF ~Parses(id)
         THEN /\ db' = db
              /\ last' = Reply("deleteCompany", 0, 400, {}, << >>, ErrorText)
         ELSE \E r \in {DeleteCompany(db, foreignKeys, id)} :
                  /\ db' = r.store
                  /\ last' = Reply("deleteCompany", id,
                                   IF r.err THEN 500 ELSE Deleted(hx),
                                   LinesOfInvoices(db, InvoicesOfCompany(db, id)), << >>,
                                   SentByDelete(r.err))
    /\ UNCHANGED <<foreignKeys, uuidSeq, minted, tx, rd, view, req, users, deleting>>

createProduct(bodies, lim) ==
    /\ \E product \in bodies :
         IF ~Decodes(product)
         THEN /\ db' = db
              /\ last' = Reply("createProduct", 0, 400, {}, << >>, ErrorText)
         ELSE \E r \in {CreateProduct(db, Decoded(product))} :
                  /\ Bounded(r.store, lim)
                  /\ db' = r.store
                  /\ last' = Reply("createProduct", r.id, IF r.err THEN 500 ELSE 201,
                                   {}, << >>, Sent(r.err))
    /\ UNCHANGED <<foreignKeys, uuidSeq, minted, tx, rd, view, req, users, deleting>>

deleteProduct(ids, hxs) ==
    /\ \E id \in ids, hx \in hxs :
         IF ~Parses(id)
         THEN /\ db' = db
              /\ last' = Reply("deleteProduct", 0, 400, {}, << >>, ErrorText)
         ELSE \E r \in {DeleteProduct(db, foreignKeys, id)} :
                  /\ db' = r.store
                  /\ last' = Reply("deleteProduct", id,
                                   IF r.err THEN 500 ELSE Deleted(hx),
                                   LinesOfProduct(db, id), << >>, SentByDelete(r.err))
    /\ UNCHANGED <<foreignKeys, uuidSeq, minted, tx, rd, view, req, users, deleting>>

createRemitInformation(bodies, lim) ==
    /\ \E raw \in bodies :
         IF ~Decodes(raw)
         THEN /\ db' = db
              /\ last' = Reply("createRemitInformation", 0, 400, {}, << >>, ErrorText)
         ELSE \E remit \in {Decoded(raw)} :
              \E r \in {CreateRemitInformation(db, foreignKeys, remit)} :
                  /\ Bounded(r.store, lim)
                  /\ db' = r.store
                  /\ last' = Reply("createRemitInformation", r.id,
                                   IF r.err THEN 500 ELSE 201, {}, remit.lines,
                                   Sent(r.err))
    /\ UNCHANGED <<foreignKeys, uuidSeq, minted, tx, rd, view, req, users, deleting>>

deleteRemitInformation(ids, hxs) ==
    /\ \E id \in ids, hx \in hxs :
         IF ~Parses(id)
         THEN /\ db' = db
              /\ last' = Reply("deleteRemitInformation", 0, 400, {}, << >>, ErrorText)
         ELSE \E r \in {DeleteRemitInformation(db, foreignKeys, id)} :
                  /\ db' = r.store
                  /\ last' = Reply("deleteRemitInformation", id,
                                   IF r.err THEN 500 ELSE Deleted(hx),
                                   LinesOfRemit(db, id), << >>, SentByDelete(r.err))
    /\ UNCHANGED <<foreignKeys, uuidSeq, minted, tx, rd, view, req, users, deleting>>

\* History: the invoice a served CreateInvoice stored for a request that carried
\* no uuid, with the uuid it was stored with.
Minted(invoice, r) ==
    IF ~r.err /\ invoice.uuid = ZeroUUID
    THEN {[id |-> r.id, uuid |-> r.uuid]}
    ELSE {}

\* uuid.New() never returns a value twice: the value fresh is spent once a
\* gateway call has stored it.
Spent(r, fresh) == IF ~r.err /\ r.uuid = fresh THEN fresh ELSE fresh - 1

createInvoice(bodies, lim) ==
    \E raw \in bodies :
        IF ~Decodes(raw)
        THEN /\ last' = Reply("createInvoice", 0, 400, {}, << >>, ErrorText)
             /\ UNCHANGED <<foreignKeys, db, uuidSeq, minted, tx, rd, view, req, users, deleting>>
        ELSE \E invoice \in {Decoded(raw)} :
             \E r \in {CreateInvoice(db, foreignKeys, invoice, uuidSeq + 1)} :
                 /\ Bounded(r.store, lim)
                 /\ db' = r.store
                 /\ uuidSeq' = Spent(r, uuidSeq + 1)
                 /\ minted' = minted \cup Minted(invoice, r)
                 /\ last' = Reply("createInvoice", r.id, IF r.err THEN 500 ELSE 201,
                                  {}, invoice.invoice_lines, Sent(r.err))
                 /\ UNCHANGED <<foreignKeys, tx, rd, view, req, users, deleting>>

\* updateInvoice: the id of the path replaces the id of the body.
updateInvoice(ids, bodies, lim) ==
    \E id \in ids, body \in bodies :
        IF ~Parses(id) \/ ~Decodes(body)
        THEN /\ last' = Reply("updateInvoice", 0, 400, {}, << >>, ErrorText)
             /\ UNCHANGED <<foreignKeys, db, uuidSeq, minted, tx, rd, view, req, users, deleting>>
        ELSE \E invoice \in {[Decoded(body) EXCEPT !.id = id]} :
             \E r \in {UpdateInvoice(db, foreignKeys, invoice, uuidSeq + 1)} :
                 /\ Bounded(r.store, lim)
                 /\ db' = r.store
                 /\ uuidSeq' = Spent(r, uuidSeq + 1)
                 /\ last' = Reply("updateInvoice", id, IF r.err THEN 500 ELSE 200,
                                  LinesOfInvoices(db, {id}), invoice.invoice_lines,
                                  Sent(r.err))
                 /\ UNCHANGED <<foreignKeys, minted, tx, rd, view, req, users, deleting>>

deleteInvoice(ids) ==
    /\ \E id \in ids :
         IF ~Parses(id)
         THEN /\ db' = db
              /\ last' = Reply("deleteInvoice", 0, 400, {}, << >>, ErrorText)
         ELSE \E r \in {DeleteInvoice(db, foreignKeys, id)} :
                  /\ db' = r.store
                  /\ last' = Reply("deleteInvoice", id, IF r.err THEN 500 ELSE 204,
                                   LinesOfInvoices(db, {id}), << >>,
                                   SentByDelete(r.err))
    /\ UNCHANGED <<foreignKeys, uuidSeq, minted, tx, rd, view, req, users, deleting>>

getInvoice(ids) ==
    /\ \E id \in ids :
         IF ~Parses(id)
         THEN last' = Reply("getInvoice", 0, 400, {}, << >>, ErrorText)
         ELSE \E r \in {GetInvoice(db, id)} :
                  last' = Reply("getInvoice", id, IF r.err THEN 404 ELSE 200,
                                {}, IF r.err THEN << >> ELSE r.invoice.InvoiceLines,
                                Sent(r.err))
    /\ UNCHANGED <<foreignKeys, db, uuidSeq, minted, tx, rd, view, req, users, deleting>>

\* getCompanies answers an error of the gateway with 404 and goes on to encode
\* the list it got.
getCompanies(faults) ==
    /\ \E fault \in faults :
       \E r \in {GetCompanies(db, fault)} :
           last' = Reply("getCompanies", 0, IF r.err THEN 404 ELSE 200, {}, r.rows,
                         IF r.err THEN ErrorText \o Json ELSE Json)
    /\ UNCHANGED <<foreignKeys, db, uuidSeq, minted, tx, rd, view, req, users, deleting>>

getCompany(ids) ==
    /\ \E id \in ids :
         IF ~Parses(id)
         THEN last' = Reply("getCompany", 0, 400, {}, << >>, ErrorText)
         ELSE \E r \in {GetCompany(db, id)} :
                  last' = Reply("getCompany", id, IF r.err THEN 404 ELSE 200,
                                {}, IF r.err THEN << >> ELSE r.row, Sent(r.err))
    /\ UNCHANGED <<foreignKeys, db, uuidSeq, minted, tx, rd, view, req, users, deleting>>

\* updateCompany: the id of the path replaces the id of the body.
updateCompany(ids, bodies, lim) ==
    /\ \E id \in ids, body \in bodies :
         IF ~Parses(id) \/ ~Decodes(body)
         THEN /\ db' = db
              /\ last' = Reply("updateCompany", 0, 400, {}, << >>, ErrorText)
         ELSE \E company \in {[Decoded(body) EXCEPT !.id = id]} :
              \E r \in {UpdateCompany(db, company)} :
                  /\ Bounded(r.store, lim)
                  /\ db' = r.store
                  /\ last' = Reply("updateCompany", id, IF r.err THEN 500 ELSE 200,
                                   {}, company, Sent(r.err))
    /\ UNCHANGED <<foreignKeys, uuidSeq, minted, tx, rd, view, req, users, deleting>>

getProducts(faults) ==
    /\ \E fault \in faults :
       \E r \in {GetProducts(db, fault)} :
           last' = Reply("getProducts", 0, IF r.err THEN 500 ELSE 200, {}, r.rows,
                         Sent(r.err))
    /\ UNCHANGED <<foreignKeys, db, uuidSeq, minted, tx, rd, view, req, users, deleting>>

getProduct(ids) ==
    /\ \E id \in ids :
         IF ~Parses(id)
         THEN last' = Reply("getProduct", 0, 400, {}, << >>, ErrorText)
         ELSE \E r \in {GetProduct(db, id)} :
                  last' = Reply("getProduct", id, IF r.err THEN 404 ELSE 200,
                                {}, IF r.err THEN << >> ELSE r.row, Sent(r.err))
    /\ UNCHANGED <<foreignKeys, db, uuidSeq, minted, tx, rd, view, req, users, deleting>>

updateProduct(ids, bodies, lim) ==
    /\ \E id \in ids, body \in bodies :
         IF ~Parses(id) \/ ~Decodes(body)
         THEN /\ db' = db
              /\ last' = Reply("updateProduct", 0, 400, {}, << >>, ErrorText)
         ELSE \E product \in {[Decoded(body) EXCEPT !.id = id]} :
              \E r \in {UpdateProduct(db, product)} :
                  /\ Bounded(r.store, lim)
                  /\ db' = r.store
                  /\ last' = Reply("updateProduct", id, IF r.err THEN 500 ELSE 200,
                                   {}, product, Sent(r.err))
    /\ UNCHANGED <<foreignKeys, uuidSeq, minted, tx, rd, view, req, users, deleting>>

getRemitInformations(faults) ==
    /\ \E fault \in faults :
       \E r \in {GetRemitInformations(db, fault)} :
           last' = Reply("getRemitInformations", 0, IF r.err THEN 500 ELSE 200, {}, r.rows,
                         Sent(r.err))
    /\ UNCHANGED <<foreignKeys, db, uuidSeq, minted, tx, rd, view, req, users, deleting>>

getRemitInformation(ids) ==
    /\ \E id \in ids :
         IF ~Parses(id)
         THEN last' = Reply("getRemitInformation", 0, 400, {}, << >>, ErrorText)
         ELSE \E r \in {GetRemitInformation(db, id)} :
                  last' = Reply("getRemitInformation", id, IF r.err THEN 404 ELSE 200,
                                {}, IF r.err THEN << >> ELSE r.row, Sent(r.err))
    /\ UNCHANGED <<foreignKeys, db, uuidSeq, minted, tx, rd, view, req, users, deleting>>

updateRemitInformation(ids, bodies, lim) ==
    /\ \E id \in ids, body \in bodies :
         IF ~Parses(id) \/ ~Decodes(body)
         THEN /\ db' = db
              /\ last' = Reply("updateRemitInformation", 0, 400, {}, << >>, ErrorText)
         ELSE \E remit \in {[Decoded(body) EXCEPT !.id = id]} :
              \E r \in {UpdateRemitInformation(db, foreignKeys, remit)} :
                  /\ Bounded(r.store, lim)
                  /\ db' = r.store
                  /\ last' = Reply("updateRemitInformation", id, IF r.err THEN 500 ELSE 200,
                                   {}, remit, Sent(r.err))
    /\ UNCHANGED <<foreignKeys, uuidSeq, minted, tx, rd, view, req, users, deleting>>

getInvoices(faults) ==
    /\ \E fault \in faults :
       \E r \in {GetInvoices(db, fault)} :
           last' = Reply("getInvoices", 0, IF r.err THEN 500 ELSE 200, {}, r.rows,
                         Sent(r.err))
    /\ UNCHANGED <<foreignKeys, db, uuidSeq, minted, tx, rd, view, req, users, deleting>>

\* No UpdateInvoice transaction, no GetInvoice and no invoice in memory.
NoTx == [pc |-> "idle", id |-> 0, invoice |-> NoInvoice, before |-> EmptyStore,
         done |-> [store |-> EmptyStore, err |-> FALSE, id |-> 0, uuid |-> ZeroUUID]]

NoRead == [pc |-> "idle", id |-> 0, row |-> NoInvoice, lines |-> {},
           overlap |-> FALSE, allowed |-> {}]

NoView == [invoice |-> NoInvoice, total |-> 0, done |-> FALSE]

\* A request body that is absent, credentials that are absent, and no request.
NoBody == [none |-> TRUE]

NoCredentials == [ok |-> FALSE, username |-> "", password |-> ""]

\* A request: the method and pattern it matches, the credentials of its
\* Authorization header, the id of its path, its body, whether it carries
\* HX-Request: true, and whether the store fails the statement it leads to.
Request(route, creds, id, body, hx, fault) ==
    [route |-> route, creds |-> creds, id |-> id, body |-> body, hx |-> hx,
     fault |-> fault]

NoReq == Request("", NoCredentials, 0, NoBody, FALSE, FALSE)

NoUsers == [u \in {} |-> 0]

\* No delete between its two statements.
NoDelete == [pc |-> "idle", of |-> "", id |-> 0, before |-> {}]

\* http.ListenAndServe: the next request reaches the mux, once the one before
\* has been answered.
accept(requests) ==
    /\ req = NoReq \/ last # NoRequest
    /\ \E q \in requests : req' = q
    /\ last' = NoRequest
    /\ UNCHANGED <<foreignKeys, db, uuidSeq, minted, tx, rd, view, users, deleting>>

\* The mux hands the request it holds, not yet answered, to the handler
\* registered for the pattern.
Routed(pattern) == req.route = pattern /\ last = NoRequest

\* ------------------------------ UpdateInvoice and GetInvoice, statement by statement
\* The store as the other connections read it after a statement ran on its own,
\* outside db.Transaction: the statement is committed at once.
AutoCommit(committed, work) == work

\* The store as the other connections read it after a statement ran inside
\* db.Transaction: what the transaction wrote stays with it until it commits.
InTransaction(committed, work) == committed

InFlight(id) == tx.pc # "idle" /\ tx.id = id

\* updateInvoice up to the first statement of the transaction, the DELETE of the
\* lines.  SQLite lets one connection write at a time: the transaction is the
\* only writer until it ends.
updateBegin(ids, bodies, lim) ==
    /\ tx.pc = "idle"
    /\ \E id \in ids, body \in bodies :
       \E invoice \in {[Decoded(body) EXCEPT !.id = id]} :
       \E work \in {DeleteInvoiceLinesWhere(db, id)} :
           /\ Bounded(UpdateInvoice(db, foreignKeys, invoice, uuidSeq + 1).store, lim)
           /\ tx' = [pc |-> "deleted", id |-> id, invoice |-> invoice, before |-> db,
                     done |-> [store |-> work, err |-> FALSE, id |-> id,
                               uuid |-> ZeroUUID]]
           /\ db' = InTransaction(db, work)
           /\ rd' = IF rd.pc # "idle" /\ rd.id = id
                    THEN [rd EXCEPT !.overlap = TRUE] ELSE rd
    /\ UNCHANGED <<foreignKeys, uuidSeq, minted, last, view, req, users, deleting>>

\* tx.Save(invoice) inside the transaction
updateSave ==
    /\ tx.pc = "deleted"
    /\ \E r \in {Save(tx.done.store, foreignKeys, tx.invoice, uuidSeq + 1)} :
           /\ tx' = [tx EXCEPT !.pc = "saved", !.done = r]
           /\ db' = InTransaction(db, r.store)
    /\ UNCHANGED <<foreignKeys, uuidSeq, minted, last, rd, view, req, users, deleting>>

\* The end of db.Transaction, commit or rollback, and the response.
updateEnd ==
    /\ tx.pc = "saved"
    /\ \E out \in {Transaction(tx.before, tx.done)} :
           /\ db' = out.store
           /\ uuidSeq' = Spent(out, uuidSeq + 1)
           /\ last' = Reply("updateInvoice", tx.id, IF out.err THEN 500 ELSE 200,
                            LinesOfInvoices(tx.before, {tx.id}), tx.invoice.invoice_lines,
                            Sent(out.err))
           /\ rd' = IF rd.pc # "idle" /\ rd.id = tx.id
                    THEN [rd EXCEPT !.allowed = @ \cup {LinesOfInvoices(out.store, {tx.id})}]
                    ELSE rd
    /\ tx' = NoTx
    /\ UNCHANGED <<foreignKeys, minted, view, req, users, deleting>>

\* getInvoice up to First(&invoice, id).  History: rd.overlap, whether an
\* UpdateInvoice of the same invoice was in flight at some statement of the read,
\* and rd.allowed, the line sets the invoice had at the start of the read and at
\* the end of each UpdateInvoice since.
readFirst(ids) ==
    /\ rd.pc = "idle"
    /\ \E id \in ids :
         IF ~HasId(db.invoices, id)
         THEN /\ last' = Reply("getInvoice", id, 404, {}, << >>, ErrorText)
              /\ rd' = rd
         ELSE /\ rd' = [pc |-> "row", id |-> id, row |-> Row(db.invoices, id),
                        lines |-> {}, overlap |-> InFlight(id),
                        allowed |-> {LinesOfInvoices(IF InFlight(id) THEN tx.before
                                                     ELSE db, {id})}]
              /\ last' = last
    /\ UNCHANGED <<foreignKeys, db, uuidSeq, minted, tx, view, req, users, deleting>>

\* Preload("InvoiceLines"): one SELECT over invoice_lines
readLines ==
    /\ rd.pc = "row"
    /\ rd' = [rd EXCEPT !.pc = "lines",
                        !.lines = LinesOfInvoices(db, {rd.id}),
                        !.overlap = @ \/ InFlight(rd.id)]
    /\ UNCHANGED <<foreignKeys, db, uuidSeq, minted, last, tx, view, req, users, deleting>>

\* The other Preload calls, and the response.
readRest ==
    /\ rd.pc = "lines"
    /\ last' = Reply("getInvoice", rd.id, 200, {}, LoadLines(db, rd.lines), Json)
    /\ rd' = NoRead
    /\ UNCHANGED <<foreignKeys, db, uuidSeq, minted, tx, view, req, users, deleting>>

\* Invoice.Total called on the invoice in memory
renderTotal ==
    /\ ~view.done
    /\ view' = [view EXCEPT !.total = Total(view.invoice), !.done = TRUE]
    /\ UNCHANGED <<foreignKeys, db, uuidSeq, minted, last, tx, rd, req, users, deleting>>

\* Invoice.Identification called on the invoice in memory
renderIdentification ==
    /\ ~view.done
    /\ view' = [view EXCEPT !.text = Identification(view.invoice), !.done = TRUE]
    /\ UNCHANGED <<foreignKeys, db, uuidSeq, minted, last, tx, rd, req, users, deleting>>

\* --------------------------------------------------------- request bodies
CompanyBodies == {[id |-> 0, name |-> "n", document |-> "d", address |-> "a"]}

ProductBodies == {[id |-> 0, name |-> "p", price |-> 1]}

RemitLineBody == [id |-> 0, key |-> "k", value |-> "v", remit_information_id |-> 0]

RemitBodies ==
    {[id |-> 0, name |-> "r", lines |-> [i \in 1..n |-> RemitLineBody]] :
        n \in 0..MaxLines}

SeqsUpTo(S, n) == UNION {[1..k -> S] : k \in 0..n}

InvoiceBody(uuid, remit, company, client, lines) ==
    [id |-> 0, uuid |-> uuid, discount |-> 0, penalty |-> 0,
     remit_information_id |-> remit, company_id |-> company, client_id |-> client,
     invoice_lines |-> lines]

\* ------------------------------------------------------------ specification
\* Spec: every entity is created and deleted, one remit information, one
\* product and one invoice at most; an invoice names any company as issuer and
\* as client and carries new lines of product 1.
SpecLimits ==
    [companies |-> MaxCompanies, products |-> 1, remits |-> 1,
     remitLines |-> MaxLines, invoices |-> 1, invoiceLines |-> MaxLines]

SpecInvoiceBodies ==
    {InvoiceBody(ZeroUUID, 1, company, client,
                 [i \in 1..n |-> [id |-> 0, product_id |-> 1, quantity |-> 1]]) :
        company \in 1..MaxCompanies, client \in 1..MaxCompanies, n \in 0..MaxLines}

Init ==
    /\ foreignKeys \in BOOLEAN
    /\ db = EmptyStore
    /\ uuidSeq = 0
    /\ minted = {}
    /\ last = NoRequest
    /\ tx = NoTx
    /\ rd = NoRead
    /\ view = NoView
    /\ req = NoReq
    /\ users = NoUsers
    /\ deleting = NoDelete

Next ==
    \/ createCompany(CompanyBodies, SpecLimits)
    \/ deleteCompany(1..MaxCompanies, {FALSE})
    \/ createProduct(ProductBodies, SpecLimits)
    \/ deleteProduct({1}, {FALSE})
    \/ createRemitInformation(RemitBodies, SpecLimits)
    \/ deleteRemitInformation({1}, {FALSE})
    \/ createInvoice(SpecInvoiceBodies, SpecLimits)
    \/ deleteInvoice({1})

Spec == Init /\ [][Next]_vars

\* ------------------------------------------------- deletes, under Spec
\* C5: DeleteInvoice and DeleteRemitInformation are all-or-nothing: after the
\* call either the parent row and all its lines are gone, or the parent row and
\* all the lines it had are still stored; never the parent without its lines.
C5_DeleteAllOrNothing ==
    /\ (last.op = "deleteInvoice" /\ last.status # 400)
           => \/ ~HasId(db.invoices, last.id) /\ LinesOfInvoices(db, {last.id}) = {}
              \/ HasId(db.invoices, last.id) /\ LinesOfInvoices(db, {last.id}) = last.before
    /\ (last.op = "deleteRemitInformation" /\ last.status # 400)
           => \/ ~HasId(db.remits, last.id) /\ LinesOfRemit(db, last.id) = {}
              \/ HasId(db.remits, last.id) /\ LinesOfRemit(db, last.id) = last.before

C8_ReferencedProductKept ==
    [][(/\ last'.op = "deleteProduct"
        /\ last'.status # 400
        /\ HasId(db.products, last'.id)
        /\ LinesOfProduct(db, last'.id) # {})
           => /\ last'.status = 500
              /\ db'.products = db.products
              /\ LinesOfProduct(db', last'.id) = LinesOfProduct(db, last'.id)]_vars

\* C9: DeleteCompany(c) of a company that a stored invoice names as its issuer
\* or as its client answers with an error, and the company, the invoices naming
\* it and their lines stay stored.
C9_ReferencedCompanyKept ==
    [][(/\ last'.op = "deleteCompany"
        /\ last'.status # 400
        /\ HasId(db.companies, last'.id)
        /\ InvoicesOfCompany(db, last'.id) # {})
           => /\ last'.status = 500
              /\ db'.companies = db.companies
              /\ db'.invoices = db.invoices
              /\ db'.invoiceLines = db.invoiceLines]_vars

\* SpecLines: the lines of invoices.  The store holds company 1, remit
\* information 1 and product 1; a line names product 1 or the missing product 2
\* and may carry an id of its own.
Seeded ==
    LET c == CreateCompany(EmptyStore, CHOOSE b \in CompanyBodies : TRUE).store
        p == CreateProduct(c, CHOOSE b \in ProductBodies : TRUE).store
    IN  CreateRemitInformation(p, FALSE, [id |-> 0, name |-> "r", lines |-> << >>]).store

LinesLimits ==
    [companies |-> 1, products |-> 1, remits |-> 1, remitLines |-> 0,
     invoices |-> MaxInvoices, invoiceLines |-> MaxLineId]

LineBodies ==
    {[id |-> id, product_id |-> p, quantity |-> 1] : id \in 0..MaxLineId, p \in {1, 2}}

LinesInvoiceBodies ==
    {InvoiceBody(ZeroUUID, 1, 1, 1, lines) : lines \in SeqsUpTo(LineBodies, MaxLines)}

InitLines ==
    /\ foreignKeys \in BOOLEAN
    /\ db = Seeded
    /\ uuidSeq = 0
    /\ minted = {}
    /\ last = NoRequest
    /\ tx = NoTx
    /\ rd = NoRead
    /\ view = NoView
    /\ req = NoReq
    /\ users = NoUsers
    /\ deleting = NoDelete

NextLines ==
    \/ createInvoice(LinesInvoiceBodies, LinesLimits)
    \/ updateInvoice(1..MaxInvoices, LinesInvoiceBodies, LinesLimits)
    \/ deleteInvoice(1..MaxInvoices)
    \/ getInvoice(1..MaxInvoices)

SpecLines == InitLines /\ [][NextLines]_vars

\* ------------------------------- replaced invoice lines, under SpecLines
\* What a line says, apart from the ids the store gives it.
LineContent(l) == [product_id |-> l.product_id, quantity |-> l.quantity]

\* Two sequences of lines are the same collection: each content occurs as often
\* in the one as in the other.
SameCollection(xs, ys) ==
    /\ Len(xs) = Len(ys)
    /\ \A i \in DOMAIN xs :
           Cardinality({j \in DOMAIN xs : LineContent(xs[j]) = LineContent(xs[i])})
             = Cardinality({j \in DOMAIN ys : LineContent(ys[j]) = LineContent(xs[i])})

\* C2: after UpdateInvoice(i, Y) succeeds on a stored invoice i, GetInvoice(i)
\* returns exactly the lines Y of the request: no line of before is left and no
\* line of Y is missing.
C2_UpdateReplacesLines ==
    [][(/\ last'.op = "updateInvoice"
        /\ last'.status = 200
        /\ HasId(db.invoices, last'.id))
           => /\ ~GetInvoice(db', last'.id).err
              /\ SameCollection(GetInvoice(db', last'.id).invoice.InvoiceLines,
                                last'.body)]_vars

\* A company with an empty document.
ApiCompanyBody == [id |-> 0, name |-> "m", document |-> "", address |-> "b"]

\* The requests of one pattern.
ById(route, creds, ids, bodies, hxs) ==
    {Request(route, c, id, body, hx, FALSE) :
        c \in creds, id \in ids, body \in bodies, hx \in hxs}

Listing(route, creds, faults) ==
    {Request(route, c, 0, NoBody, FALSE, fault) : c \in creds, fault \in faults}

\* ----------------------------------------------------------- authentication
\* bcrypt.GenerateFromPassword draws a salt and returns a hash that holds the
\* salt and the digest of salt and password.
hashPassword(password, salt) == [salt |-> salt, digest |-> <<salt, password>>]

\* A stored password_hash that is no bcrypt hash.
NotAHash == [salt |-> 0, digest |-> << >>]

\* A comparison that takes every password.
CompareAnyPassword(hash, password) == [err |-> FALSE]

\* bcrypt.CompareHashAndPassword: digests the password with the salt of the hash
\* and returns nil when the digests agree; a text that is no hash is an error.
CompareHashAndPassword(hash, password) ==
    [err |-> hash = NotAHash \/ hash.digest # <<hash.salt, password>>]

\* Repository.GetUserByUsername: the stored user of that name, or an error.
GetUserByUsername(us, username) ==
    IF username \in DOMAIN us
    THEN [err |-> FALSE, user |-> [username |-> username, password_hash |-> us[username]]]
    ELSE [err |-> TRUE, user |-> [username |-> "", password_hash |-> NotAHash]]

\* w.Header().Set("WWW-Authenticate", `Basic realm="Tiny CRM"`)
Challenge == <<"WWW-Authenticate">>

\* The three refusals of basicAuthMiddleware: the challenge, then
\* http.Error(w, "Unauthorized", 401); next is not called.
Unauthorized ==
    /\ last' = Reply("basicAuthMiddleware", 0, 401, {}, << >>, Challenge \o ErrorText)
    /\ UNCHANGED <<foreignKeys, db, uuidSeq, minted, tx, rd, view, req, users, deleting>>

\* basicAuthMiddleware(next): the handler it returns, serving the request the mux
\* holds.
basicAuthMiddleware(next) ==
    \E auth \in {req.creds} :
        IF ~auth.ok THEN Unauthorized
        ELSE \E found \in {GetUserByUsername(users, auth.username)} :
                 IF found.err THEN Unauthorized
                 ELSE IF CompareHashAndPassword(found.user.password_hash,
                                                auth.password).err
                      THEN Unauthorized
                      ELSE next

\* SpecAuth: the company handlers, each wrapped in basicAuthMiddleware, serve
\* requests with every kind of credentials over a store of users with none, one
\* or two users, one of them with a password_hash that is no hash.
AuthSalts == {1, 2}

AuthUserTables ==
    {NoUsers}
    \cup {("admin" :> hashPassword("secret", salt)) : salt \in AuthSalts}
    \cup {("admin" :> hashPassword("secret", 1)) @@ ("guest" :> NotAHash)}

Basic(username, password) == [ok |-> TRUE, username |-> username, password |-> password]

AuthCredentials ==
    {NoCredentials}
    \cup {Basic(u, pw) : u \in {"", "admin", "guest", "nobody"}, pw \in {"", "secret", "other"}}

AuthLimits ==
    [companies |-> 1, products |-> 0, remits |-> 0, remitLines |-> 0,
     invoices |-> 0, invoiceLines |-> 0]

AuthRequests ==
    Listing("GET /api/companies", AuthCredentials, {FALSE})
    \cup ById("POST /api/companies", AuthCredentials, {0}, CompanyBodies, {FALSE})
    \cup ById("GET /api/companies/{companyId}", AuthCredentials, {1}, {NoBody}, {FALSE})
    \cup ById("PUT /api/companies/{companyId}", AuthCredentials, {1}, {ApiCompanyBody}, {FALSE})
    \cup ById("DELETE /api/companies/{companyId}", AuthCredentials, {1}, {NoBody}, {FALSE})

InitAuth ==
    /\ foreignKeys = FALSE
    /\ db = EmptyStore
    /\ uuidSeq = 0
    /\ minted = {}
    /\ last = NoRequest
    /\ tx = NoTx
    /\ rd = NoRead
    /\ view = NoView
    /\ req = NoReq
    /\ users \in AuthUserTables
    /\ deleting = NoDelete

NextAuth ==
    \/ accept(AuthRequests)
    \/ (Routed("GET /api/companies") /\ basicAuthMiddleware(getCompanies({req.fault})))
    \/ (Routed("POST /api/companies")
           /\ basicAuthMiddleware(createCompany({req.body}, AuthLimits)))
    \/ (Routed("GET /api/companies/{companyId}")
           /\ basicAuthMiddleware(getCompany({req.id})))
    \/ (Routed("PUT /api/companies/{companyId}")
           /\ basicAuthMiddleware(updateCompany({req.id}, {req.body}, AuthLimits)))
    \/ (Routed("DELETE /api/companies/{companyId}")
           /\ basicAuthMiddleware(deleteCompany({req.id}, {req.hx})))

SpecAuth == InitAuth /\ [][NextAuth]_vars

\* Said without the middleware: the request carries basic credentials, the
\* username names a stored user, and the stored hash is the hash, under some
\* salt, of the password sent.
ValidCredentials(us, creds) ==
    /\ creds.ok
    /\ creds.username \in DOMAIN us
    /\ \E salt \in AuthSalts : us[creds.username] = hashPassword(creds.password, salt)

\* C14: the wrapped handler runs if and only if the request carries basic
\* credentials, the username names a stored user and the password matches that
\* user's stored hash; in every other case the response is 401 with a
\* WWW-Authenticate challenge and the wrapped handler is not invoked.
C14_HandlerRunsIffAuthenticated ==
    [][(last = NoRequest /\ last' # NoRequest)
           => IF ValidCredentials(users, req.creds)
              THEN last'.op \in {"getCompanies", "createCompany", "getCompany",
                                 "updateCompany", "deleteCompany"}
              ELSE /\ last'.op = "basicAuthMiddleware"
                   /\ last'.status = 401
                   /\ \E i \in DOMAIN last'.sent : last'.sent[i] = "WWW-Authenticate"
                   /\ db' = db]_vars

\* A create refused for a wrong password of a stored user, with a company
\* stored by an earlier, authenticated create.
C14_Witness ==
    /\ last.op = "basicAuthMiddleware"
    /\ last.status = 401
    /\ req.route = "POST /api/companies"
    /\ req.creds = Basic("admin", "other")
    /\ "admin" \in DOMAIN users
    /\ HasId(db.companies, 1)

\* ------------------------------------------------------------------ SpecApi
\* setupRoutes: every pattern with the handler registered for it, no handler
\* wrapped.
ServeMux(requests, lim) ==
    \/ accept(requests)
    \/ (Routed("GET /company/") /\ getCompanies({req.fault}))
    \/ (Routed("POST /company/") /\ createCompany({req.body}, lim))
    \/ (Routed("GET /company/{companyId}") /\ getCompany({req.id}))
    \/ (Routed("PUT /company/{companyId}") /\ updateCompany({req.id}, {req.body}, lim))
    \/ (Routed("DELETE /company/{companyId}") /\ deleteCompany({req.id}, {req.hx}))
    \/ (Routed("GET /remit/") /\ getRemitInformations({req.fault}))
    \/ (Routed("POST /remit/") /\ createRemitInformation({req.body}, lim))
    \/ (Routed("GET /remit/{remitId}") /\ getRemitInformation({req.id}))
    \/ (Routed("PUT /remit/{remitId}") /\ updateRemitInformation({req.id}, {req.body}, lim))
    \/ (Routed("DELETE /remit/{remitId}") /\ deleteRemitInformation({req.id}, {req.hx}))
    \/ (Routed("GET /product/") /\ getProducts({req.fault}))
    \/ (Routed("POST /product/") /\ createProduct({req.body}, lim))
    \/ (Routed("GET /product/{productId}") /\ getProduct({req.id}))
    \/ (Routed("PUT /product/{productId}") /\ updateProduct({req.id}, {req.body}, lim))
    \/ (Routed("DELETE /product/{productId}") /\ deleteProduct({req.id}, {req.hx}))
    \/ (Routed("GET /invoice/") /\ getInvoices({req.fault}))
    \/ (Routed("POST /invoice/") /\ createInvoice({req.body}, lim))
    \/ (Routed("GET /invoice/{invoiceId}") /\ getInvoice({req.id}))
    \/ (Routed("PUT /invoice/{invoiceId}") /\ updateInvoice({req.id}, {req.body}, lim))
    \/ (Routed("DELETE /invoice/{invoiceId}") /\ deleteInvoice({req.id}))

\* SpecApi: the mux serves one request after the other over the store
\* NewRepository opens, on which foreign keys are not enforced.  The requests
\* carry no credentials; their ids are stored, not stored or no number, their
\* bodies decode or not, and a list may meet a store that fails.
ApiLimits ==
    [companies |-> 1, products |-> 1, remits |-> 1, remitLines |-> 1,
     invoices |-> 1, invoiceLines |-> 1]

ApiCompanyBodies ==
    CompanyBodies \cup {ApiCompanyBody, [ApiCompanyBody EXCEPT !.id = 1],
                         Trailing(ApiCompanyBody), Malformed}

ApiRemitBodies ==
    {[id |-> 0, name |-> "r", lines |-> [i \in 1..n |-> RemitLineBody]] : n \in 0..1}
        \cup {Malformed}

ApiInvoiceBodies ==
    {InvoiceBody(ZeroUUID, 1, 1, 1,
                 [i \in 1..n |-> [id |-> 0, product_id |-> 1, quantity |-> 1]]) :
        n \in 0..1} \cup {Malformed}

Anonymous == {NoCredentials}

ApiRequests ==
    Listing("GET /company/", Anonymous, BOOLEAN)
    \cup Listing("GET /product/", Anonymous, BOOLEAN)
    \cup Listing("GET /remit/", Anonymous, BOOLEAN)
    \cup Listing("GET /invoice/", Anonymous, BOOLEAN)
    \cup ById("POST /company/", Anonymous, {0}, ApiCompanyBodies, {FALSE})
    \cup ById("GET /company/{companyId}", Anonymous, {NotANumber, 1, 2, TooLarge},
             {NoBody}, {FALSE})
    \cup ById("PUT /company/{companyId}", Anonymous, {NotANumber, 1, 2},
             {ApiCompanyBody, Malformed}, {FALSE})
    \cup ById("DELETE /company/{companyId}", Anonymous, {NotANumber, 1, 2}, {NoBody}, BOOLEAN)
    \cup ById("POST /product/", Anonymous, {0}, ProductBodies \cup {Malformed}, {FALSE})
    \cup ById("GET /product/{productId}", Anonymous, {NotANumber, 1, TooLarge},
             {NoBody}, {FALSE})
    \cup ById("PUT /product/{productId}", Anonymous, {NotANumber, 1},
             ProductBodies \cup {Malformed}, {FALSE})
    \cup ById("DELETE /product/{productId}", Anonymous, {NotANumber, 1}, {NoBody}, BOOLEAN)
    \cup ById("POST /remit/", Anonymous, {0}, ApiRemitBodies, {FALSE})
    \cup ById("GET /remit/{remitId}", Anonymous, {NotANumber, 1, TooLarge},
             {NoBody}, {FALSE})
    \cup ById("PUT /remit/{remitId}", Anonymous, {NotANumber, 1}, ApiRemitBodies, {FALSE})
    \cup ById("DELETE /remit/{remitId}", Anonymous, {NotANumber, 1}, {NoBody}, BOOLEAN)
    \cup ById("POST /invoice/", Anonymous, {0}, ApiInvoiceBodies, {FALSE})
    \cup ById("GET /invoice/{invoiceId}", Anonymous, {NotANumber, 1, TooLarge},
             {NoBody}, {FALSE})
    \cup ById("PUT /invoice/{invoiceId}", Anonymous, {NotANumber, 1}, ApiInvoiceBodies, {FALSE})
    \cup ById("DELETE /invoice/{invoiceId}", Anonymous, {NotANumber, 1}, {NoBody}, BOOLEAN)

InitApi ==
    /\ foreignKeys = FALSE
    /\ db = EmptyStore
    /\ uuidSeq = 0
    /\ minted = {}
    /\ last = NoRequest
    /\ tx = NoTx
    /\ rd = NoRead
    /\ view = NoView
    /\ req = NoReq
    /\ users = NoUsers
    /\ deleting = NoDelete

NextApi == ServeMux(ApiRequests, ApiLimits)

SpecApi == InitApi /\ [][NextApi]_vars

\* --------------------------------------------------------------- SpecRoutes
\* SpecRoutes: the mux of setupRoutes serves requests of every pattern that come
\* without credentials, with a wrong password and with the password of the
\* stored user.
RoutesLimits ==
    [companies |-> 1, products |-> 1, remits |-> 1, remitLines |-> 0,
     invoices |-> 1, invoiceLines |-> 0]

RoutesCredentials == {NoCredentials, Basic("admin", "other"), Basic("admin", "secret")}

RoutesUsers == "admin" :> hashPassword("secret", 1)

RoutesRequests ==
    UNION {Listing(route, RoutesCredentials, {FALSE}) :
              route \in {"GET /company/", "GET /remit/", "GET /product/", "GET /invoice/"}}
    \cup ById("POST /company/", RoutesCredentials, {0}, CompanyBodies, {FALSE})
    \cup ById("PUT /company/{companyId}", RoutesCredentials, {1}, CompanyBodies, {FALSE})
    \cup ById("POST /product/", RoutesCredentials, {0}, ProductBodies, {FALSE})
    \cup ById("PUT /product/{productId}", RoutesCredentials, {1}, ProductBodies, {FALSE})
    \cup ById("POST /remit/", RoutesCredentials, {0},
             {[id |-> 0, name |-> "r", lines |-> << >>]}, {FALSE})
    \cup ById("PUT /remit/{remitId}", RoutesCredentials, {1},
             {[id |-> 0, name |-> "r", lines |-> << >>]}, {FALSE})
    \cup ById("POST /invoice/", RoutesCredentials, {0},
             {InvoiceBody(ZeroUUID, 1, 1, 1, << >>)}, {FALSE})
    \cup ById("PUT /invoice/{invoiceId}", RoutesCredentials, {1},
             {InvoiceBody(ZeroUUID, 1, 1, 1, << >>)}, {FALSE})
    \cup UNION {ById(route, RoutesCredentials, {1}, {NoBody}, {FALSE}) :
                  route \in {"GET /company/{companyId}", "DELETE /company/{companyId}",
                             "GET /remit/{remitId}", "DELETE /remit/{remitId}",
                             "GET /product/{productId}", "DELETE /product/{productId}",
                             "GET /invoice/{invoiceId}", "DELETE /invoice/{invoiceId}"}}

InitRoutes ==
    /\ foreignKeys = FALSE
    /\ db = EmptyStore
    /\ uuidSeq = 0
    /\ minted = {}
    /\ last = NoRequest
    /\ tx = NoTx
    /\ rd = NoRead
    /\ view = NoView
    /\ req = NoReq
    /\ users = RoutesUsers
    /\ deleting = NoDelete

NextRoutes == ServeMux(RoutesRequests, RoutesLimits)

SpecRoutes == InitRoutes /\ [][NextRoutes]_vars

\* C15: every route that lists, reads, creates, updates or deletes a company,
\* product, remit information or invoice is registered behind the auth
\* middleware: a request without valid credentials is answered 401 and reaches
\* no gateway operation.
C15_RoutesBehindAuth ==
    [][(last = NoRequest /\ last' # NoRequest /\ ~ValidCredentials(users, req.creds))
           => /\ last'.op = "basicAuthMiddleware"
              /\ last'.status = 401
              /\ db' = db]_vars

GetById == {"getCompany", "getProduct", "getRemitInformation", "getInvoice"}

TableRead(s, op) ==
    CASE op = "getCompany" -> s.companies
      [] op = "getProduct" -> s.products
      [] op = "getRemitInformation" -> s.remits
      [] op = "getInvoice" -> s.invoices

\* C12 as first stated: for each of the four entity types a GET by id answers
\* 404 when the id is numeric and no record with that id is stored, and 400 when
\* the path id is not an unsigned number; the store is unchanged in both cases.
C12_NumericUnknownIs404 ==
    [][last'.op \in GetById
           => /\ (Numeric(req.id) /\ ~HasId(TableRead(db, last'.op), req.id))
                     => (last'.status = 404 /\ db' = db)
              /\ ~Numeric(req.id) => (last'.status = 400 /\ db' = db)]_vars

\* C12, amended: for each of the four entity types a GET by id answers 404 when
\* the id is an unsigned number of at most 32 bits and no record with that id is
\* stored, and 400 when the path id is not an unsigned number or is a number
\* above 4294967295; the store is unchanged in both cases.
C12_GetByIdErrors ==
    [][last'.op \in GetById
           => /\ (req.id >= 0 /\ ~HasId(TableRead(db, last'.op), req.id))
                     => (last'.status = 404 /\ db' = db)
              /\ req.id \in {NotANumber, TooLarge}
                     => (last'.status = 400 /\ db' = db)]_vars

\* An unknown company id answered 404 while another company is stored.
C12_Witness ==
    /\ last.op = "getCompany"
    /\ last.status = 404
    /\ req.id = 2
    /\ HasId(db.companies, 1)

\* The handlers of PUT and DELETE, and the table each writes.
PutOrDelete ==
    {"updateCompany", "updateProduct", "updateRemitInformation", "updateInvoice",
     "deleteCompany", "deleteProduct", "deleteRemitInformation", "deleteInvoice"}

TableWritten(s, op) ==
    CASE op \in {"updateCompany", "deleteCompany"} -> s.companies
      [] op \in {"updateProduct", "deleteProduct"} -> s.products
      [] op \in {"updateRemitInformation", "deleteRemitInformation"} -> s.remits
      [] op \in {"updateInvoice", "deleteInvoice"} -> s.invoices

\* C13: a PUT or DELETE request that names a numeric id for which no record of
\* that entity type is stored answers 404 and creates, changes or removes no
\* record.
C13_UnknownIdIs404 ==
    [][(/\ last'.op \in PutOrDelete
        /\ Numeric(req.id)
        /\ ~HasId(TableWritten(db, last'.op), req.id))
           => (last'.status = 404 /\ db' = db)]_vars

\* The handlers by kind.
Lists == {"getCompanies", "getProducts", "getRemitInformations", "getInvoices"}

Creates == {"createCompany", "createProduct", "createRemitInformation", "createInvoice"}

Updates == {"updateCompany", "updateProduct", "updateRemitInformation", "updateInvoice"}

Deletes == {"deleteCompany", "deleteProduct", "deleteRemitInformation", "deleteInvoice"}

\* The request was served without a call of http.Error.
Successful(reply) ==
    /\ reply.op # "none"
    /\ \A i \in DOMAIN reply.sent : reply.sent[i] # "error"

\* C16 as first stated: for every entity type and every request, a successful
\* list, get or update answers 200, a successful create 201 and a successful
\* delete 204.
C16_DeleteIs204 ==
    Successful(last) =>
        /\ last.op \in Lists \cup GetById \cup Updates => last.status = 200
        /\ last.op \in Creates => last.status = 201
        /\ last.op \in Deletes => last.status = 204

\* C16, amended: a successful list, get or update answers 200 and a successful
\* create 201; a successful delete answers 204, except that a successful delete
\* of a company, a product or a remit information whose request carries
\* HX-Request: true answers 200; a successful delete writes no body.
C16_SuccessStatus ==
    Successful(last) =>
        /\ last.op \in Lists \cup GetById \cup Updates => last.status = 200
        /\ last.op \in Creates => last.status = 201
        /\ last.op = "deleteInvoice" => last.status = 204
        /\ last.op \in Deletes \ {"deleteInvoice"}
               => last.status = (IF req.hx THEN 200 ELSE 204)
        /\ last.op \in Deletes => last.sent = << >>

\* A remit information with lines deleted by a request with HX-Request: true,
\* answered 200.
C16_Witness ==
    /\ last.op = "deleteRemitInformation"
    /\ Successful(last)
    /\ req.hx
    /\ last.before # {}
    /\ last.status = 200

\* The handler op, serving request q over store s, calls its gateway operation
\* and the operation returns an error.
ListError(s, q, op) ==
    CASE op = "getCompanies" -> GetCompanies(s, q.fault).err
      [] op = "getProducts" -> GetProducts(s, q.fault).err
      [] op = "getRemitInformations" -> GetRemitInformations(s, q.fault).err
      [] op = "getInvoices" -> GetInvoices(s, q.fault).err

CreateError(s, fk, v, op, fresh) ==
    CASE op = "createCompany" -> CreateCompany(s, v).err
      [] op = "createProduct" -> CreateProduct(s, v).err
      [] op = "createRemitInformation" -> CreateRemitInformation(s, fk, v).err
      [] op = "createInvoice" -> CreateInvoice(s, fk, v, fresh).err

UpdateError(s, fk, v, op, fresh) ==
    CASE op = "updateCompany" -> UpdateCompany(s, v).err
      [] op = "updateProduct" -> UpdateProduct(s, v).err
      [] op = "updateRemitInformation" -> UpdateRemitInformation(s, fk, v).err
      [] op = "updateInvoice" -> UpdateInvoice(s, fk, v, fresh).err

DeleteError(s, fk, id, op) ==
    CASE op = "deleteCompany" -> DeleteCompany(s, fk, id).err
      [] op = "deleteProduct" -> DeleteProduct(s, fk, id).err
      [] op = "deleteRemitInformation" -> DeleteRemitInformation(s, fk, id).err
      [] op = "deleteInvoice" -> DeleteInvoice(s, fk, id).err

GatewayError(s, fk, q, op, fresh) ==
    \/ op \in Lists /\ ListError(s, q, op)
    \/ op \in Creates /\ Decodes(q.body) /\ CreateError(s, fk, Decoded(q.body), op, fresh)
    \/ /\ op \in Updates
       /\ Parses(q.id)
       /\ Decodes(q.body)
       /\ UpdateError(s, fk, [Decoded(q.body) EXCEPT !.id = q.id], op, fresh)
    \/ op \in Deletes /\ Parses(q.id) /\ DeleteError(s, fk, q.id, op)

\* C17: whenever a list, create, update or delete gateway operation returns an
\* error, the handler answers 500 with the message of the error and writes no
\* success body.
C17_GatewayErrorIs500 ==
    [][(/\ last = NoRequest
        /\ last'.op \in Lists \cup Creates \cup Updates \cup Deletes
        /\ GatewayError(db, foreignKeys, req, last'.op, uuidSeq + 1))
           => (last'.status = 500 /\ last'.sent = ErrorText)]_vars

\* C18: a create or update request whose body is not well-formed JSON answers
\* 400, calls no gateway write operation and leaves the store unchanged.
C18_MalformedBodyIs400 ==
    [][(/\ last = NoRequest
        /\ last'.op \in Creates \cup Updates
        /\ ~WellFormed(req.body))
           => (last'.status = 400 /\ last'.sent = ErrorText /\ db' = db)]_vars

\* --------------------------------------------------- SpecConc and SpecTotal
\* SpecConc: invoice 1, stored with one line, is updated by one request while
\* another reads it, statement by statement, and further invoices are created.
\* A line is new and names product 1 or the missing product 2.
ConcBodies ==
    {InvoiceBody(ZeroUUID, 1, 1, 1, lines) :
        lines \in SeqsUpTo({[id |-> 0, product_id |-> p, quantity |-> 1] : p \in {1, 2}},
                           MaxLines)}

ConcFirstBody ==
    InvoiceBody(ZeroUUID, 1, 1, 1, <<[id |-> 0, product_id |-> 1, quantity |-> 1]>>)

ConcLimits ==
    [companies |-> 1, products |-> 1, remits |-> 1, remitLines |-> 0,
     invoices |-> MaxInvoices, invoiceLines |-> MaxLineId]

InitConc ==
    /\ foreignKeys \in BOOLEAN
    /\ \E r \in {CreateInvoice(Seeded, foreignKeys, ConcFirstBody, 1)} :
           /\ db = r.store
           /\ uuidSeq = Spent(r, 1)
           /\ minted = Minted(ConcFirstBody, r)
    /\ last = NoRequest
    /\ tx = NoTx
    /\ rd = NoRead
    /\ view = NoView
    /\ req = NoReq
    /\ users = NoUsers
    /\ deleting = NoDelete

\* SQLite lets one connection write at a time: a create waits for the open
\* transaction to end.
NextConc ==
    \/ (tx.pc = "idle" /\ createInvoice(ConcBodies, ConcLimits))
    \/ updateBegin({1}, ConcBodies, ConcLimits)
    \/ updateSave
    \/ updateEnd
    \/ readFirst({1})
    \/ readLines
    \/ readRest

SpecConc == InitConc /\ [][NextConc]_vars

\* C3: while an UpdateInvoice of invoice i is in flight, a read of invoice i gets
\* the whole line set the invoice had before the update or the whole line set the
\* update committed, never the emptied or a half-written one.
C3_ReadsSeeWholeLineSets ==
    (rd.pc = "lines" /\ rd.overlap) => rd.lines \in rd.allowed

\* A read that loaded the lines after the transaction had deleted them and before
\* it ended, and got the lines of before.
C3_Witness ==
    /\ rd.pc = "lines"
    /\ rd.overlap
    /\ tx.pc \in {"deleted", "saved"}
    /\ tx.id = rd.id
    /\ rd.lines # {}
    /\ LinesOfInvoices(tx.done.store, {tx.id}) # rd.lines

\* C4: when UpdateInvoice(i, Y) returns an error, the invoice row and the lines
\* the invoice had are stored exactly as before the call.
C4_FailedUpdateKeepsStore ==
    [][(last'.op = "updateInvoice" /\ last'.status = 500)
           => /\ db'.invoices = db.invoices
              /\ db'.invoiceLines = db.invoiceLines]_vars

\* A refused UpdateInvoice, with lines in the request, of an invoice that had
\* lines: the save failed after the transaction had deleted them.
C4_Witness ==
    /\ last.op = "updateInvoice"
    /\ last.status = 500
    /\ last.before # {}
    /\ last.body # << >>
    /\ HasId(db.invoices, last.id)

\* SpecTotal: Invoice.Total over loaded invoices of up to MaxTotalLines lines.
TotalLines ==
    {[id |-> 0, invoice_id |-> 1, product_id |-> 1, quantity |-> q,
      Product |-> [id |-> 1, name |-> "p", price |-> p]] :
        q \in 0..MaxAmount, p \in 0..MaxAmount}

TotalInvoices ==
    {[id |-> 1, uuid |-> 1, discount |-> d, penalty |-> pn,
      remit_information_id |-> 0, company_id |-> 0, client_id |-> 0,
      InvoiceLines |-> lines, RemitInformation |-> ZeroRemit,
      Company |-> ZeroCompany, Client |-> ZeroCompany] :
        d \in 0..MaxAmount, pn \in 0..MaxAmount,
        lines \in SeqsUpTo(TotalLines, MaxTotalLines)}

InitTotal ==
    /\ foreignKeys = FALSE
    /\ db = EmptyStore
    /\ uuidSeq = 0
    /\ minted = {}
    /\ last = NoRequest
    /\ tx = NoTx
    /\ rd = NoRead
    /\ view \in {[invoice |-> i, total |-> 0, done |-> FALSE] : i \in TotalInvoices}
    /\ req = NoReq
    /\ users = NoUsers
    /\ deleting = NoDelete

NextTotal == renderTotal

SpecTotal == InitTotal /\ [][NextTotal]_vars

\* The sum over the lines of product price times quantity.
RECURSIVE SumOfLines(_)
SumOfLines(lines) ==
    IF lines = << >> THEN 0
    ELSE Head(lines).Product.price * Head(lines).quantity + SumOfLines(Tail(lines))

\* C1: Invoice.Total() of a loaded invoice is the sum over its lines of product
\* price times quantity, minus the discount, plus the penalty; with no lines it
\* is the penalty minus the discount.
C1_TotalFormula ==
    view.done =>
        /\ view.total = SumOfLines(view.invoice.InvoiceLines)
                          - view.invoice.discount + view.invoice.penalty
        /\ view.invoice.InvoiceLines = << >>
               => view.total = view.invoice.penalty - view.invoice.discount

\* A computed total of two lines of different worth, a discount and a penalty.
C1_Witness ==
    /\ view.done
    /\ Len(view.invoice.InvoiceLines) = 2
    /\ view.invoice.InvoiceLines[1].Product.price * view.invoice.InvoiceLines[1].quantity = 4
    /\ view.invoice.InvoiceLines[2].Product.price * view.invoice.InvoiceLines[2].quantity = 1
    /\ view.invoice.discount = 2
    /\ view.invoice.penalty = 1
    /\ view.total = 4

\* ---------------------------------------------------------------- SpecReads
\* SpecReads: invoices are created over a store of two companies, a product and
\* a remit information with a line; companies, the product and invoices are
\* deleted; invoices and remit informations are read one by one and listed.
ReadsStore ==
    LET c1 == CreateCompany(EmptyStore, CHOOSE b \in CompanyBodies : TRUE).store
        c2 == CreateCompany(c1, ApiCompanyBody).store
        p == CreateProduct(c2, CHOOSE b \in ProductBodies : TRUE).store
    IN  CreateRemitInformation(p, FALSE,
                               [id |-> 0, name |-> "r", lines |-> <<RemitLineBody>>]).store

ReadsLimits ==
    [companies |-> 2, products |-> 1, remits |-> 1, remitLines |-> 1,
     invoices |-> 2, invoiceLines |-> 2]

ReadsInvoiceBodies ==
    {InvoiceBody(ZeroUUID, 1, company, client,
                 [i \in 1..n |-> [id |-> 0, product_id |-> 1, quantity |-> 2]]) :
        company \in {1, 2}, client \in {1, 2}, n \in {0, 1, 2}}

InitReads ==
    /\ foreignKeys \in BOOLEAN
    /\ db = ReadsStore
    /\ uuidSeq = 0
    /\ minted = {}
    /\ last = NoRequest
    /\ tx = NoTx
    /\ rd = NoRead
    /\ view = NoView
    /\ req = NoReq
    /\ users = NoUsers
    /\ deleting = NoDelete

NextReads ==
    \/ createInvoice(ReadsInvoiceBodies, ReadsLimits)
    \/ deleteInvoice({1, 2})
    \/ deleteCompany({1, 2}, {FALSE})
    \/ deleteProduct({1}, {FALSE})
    \/ getInvoice({1, 2})
    \/ getInvoices({FALSE})
    \/ getRemitInformation({1})
    \/ getRemitInformations({FALSE})

SpecReads == InitReads /\ [][NextReads]_vars

\* The set of the elements of a sequence.
Range(sq) == {sq[k] : k \in DOMAIN sq}

\* sq lists every row of rows once, and nothing else, by primary key.
ListsAll(sq, rows) ==
    /\ {x.id : x \in Range(sq)} = {r.id : r \in rows}
    /\ Len(sq) = Cardinality(rows)

\* got is remit row r of store s with all the lines stored for it.
FullRemit(got, r, s) ==
    /\ got.id = r.id
    /\ got.name = r.name
    /\ Range(got.Lines) = {l \in s.remitLines : l.remit_information_id = r.id}
    /\ Len(got.Lines) = Cardinality(Range(got.Lines))

\* gl is line l of store s with the product stored for it.
FullLine(gl, l, s) ==
    /\ gl.id = l.id
    /\ gl.invoice_id = l.invoice_id
    /\ gl.product_id = l.product_id
    /\ gl.quantity = l.quantity
    /\ \A p \in s.products : p.id = l.product_id => gl.Product = p

\* got is invoice row of store s with all the lines stored for it, the product
\* of each line, its remit information with that remit's lines, its issuing
\* company and its client, each as stored.
FullInvoice(got, row, s) ==
    /\ got.id = row.id
    /\ got.uuid = row.uuid
    /\ got.discount = row.discount
    /\ got.penalty = row.penalty
    /\ ListsAll(got.InvoiceLines, {l \in s.invoiceLines : l.invoice_id = row.id})
    /\ \A gl \in Range(got.InvoiceLines) :
           \E l \in s.invoiceLines : l.id = gl.id /\ FullLine(gl, l, s)
    /\ \A r \in s.remits :
           r.id = row.remit_information_id => FullRemit(got.RemitInformation, r, s)
    /\ \A c \in s.companies : c.id = row.company_id => got.Company = c
    /\ \A c \in s.companies : c.id = row.client_id => got.Client = c

\* C20: GetInvoice and GetInvoices return every invoice with all of its stored
\* lines, each line's product, its remit information with that remit's lines,
\* its issuing company and its client, each equal to the currently stored
\* record; GetRemitInformation and GetRemitInformations return every remit with
\* all of its stored lines.  The same holds of what the list handlers and
\* getRemitInformation answer.
C20_EagerLoading ==
    /\ \A row \in db.invoices :
           /\ ~GetInvoice(db, row.id).err
           /\ FullInvoice(GetInvoice(db, row.id).invoice, row, db)
    /\ ListsAll(GetInvoices(db, FALSE).rows, db.invoices)
    /\ \A got \in Range(GetInvoices(db, FALSE).rows) :
           \E row \in db.invoices : row.id = got.id /\ FullInvoice(got, row, db)
    /\ \A r \in db.remits :
           /\ ~GetRemitInformation(db, r.id).err
           /\ FullRemit(GetRemitInformation(db, r.id).row, r, db)
    /\ ListsAll(GetRemitInformations(db, FALSE).rows, db.remits)
    /\ \A got \in Range(GetRemitInformations(db, FALSE).rows) :
           \E r \in db.remits : r.id = got.id /\ FullRemit(got, r, db)
    /\ (last.op = "getInvoices" /\ last.status = 200)
           => /\ ListsAll(last.body, db.invoices)
              /\ \A got \in Range(last.body) :
                     \E row \in db.invoices : row.id = got.id /\ FullInvoice(got, row, db)
    /\ (last.op = "getRemitInformations" /\ last.status = 200)
           => /\ ListsAll(last.body, db.remits)
              /\ \A got \in Range(last.body) :
                     \E r \in db.remits : r.id = got.id /\ FullRemit(got, r, db)
    /\ (last.op = "getRemitInformation" /\ last.status = 200)
           => \E r \in db.remits : r.id = last.id /\ FullRemit(last.body, r, db)

\* A list of two invoices, the second issued by company 2 to company 1 with two
\* lines of the stored product, its remit information loaded with its line.
C20_Witness ==
    /\ last.op = "getInvoices"
    /\ last.status = 200
    /\ Len(last.body) = 2
    /\ last.body[2].Company = [ApiCompanyBody EXCEPT !.id = 2]
    /\ last.body[2].Client.id = 1
    /\ Len(last.body[2].InvoiceLines) = 2
    /\ last.body[2].InvoiceLines[1].Product.price = 1
    /\ Len(last.body[2].RemitInformation.Lines) = 1

\* --------------------------------------------------------------- SpecLedger
\* SpecLedger: over the store of SpecReads, invoices are created with lines of
\* product 1 in any quantity, a negative one and none included; the product is
\* given a new price; invoices are read.
LedgerLineBodies ==
    {[id |-> 0, product_id |-> 1, quantity |-> q] : q \in {-1, 0, 2}}

LedgerInvoiceBodies ==
    {[InvoiceBody(ZeroUUID, 1, 1, 2, lines) EXCEPT !.discount = 1] :
        lines \in SeqsUpTo(LedgerLineBodies, 2)}

LedgerProductBodies ==
    {[id |-> 0, name |-> "p", price |-> price] : price \in 1..MaxAmount}

LedgerLimits ==
    [companies |-> 2, products |-> 1, remits |-> 1, remitLines |-> 1,
     invoices |-> 2, invoiceLines |-> 3]

InitLedger ==
    /\ foreignKeys \in BOOLEAN
    /\ db = ReadsStore
    /\ uuidSeq = 0
    /\ minted = {}
    /\ last = NoRequest
    /\ tx = NoTx
    /\ rd = NoRead
    /\ view = NoView
    /\ req = NoReq
    /\ users = NoUsers
    /\ deleting = NoDelete

NextLedger ==
    \/ createInvoice(LedgerInvoiceBodies, LedgerLimits)
    \/ updateProduct({1}, LedgerProductBodies, LedgerLimits)
    \/ getInvoice({1, 2})

SpecLedger == InitLedger /\ [][NextLedger]_vars

\* The sum, over the rows ls of invoice_lines, of the quantity times the price
\* the table products holds for the product of the row.
RECURSIVE WorthOfLines(_, _)
WorthOfLines(ls, products) ==
    IF ls = {} THEN 0
    ELSE LET l == CHOOSE x \in ls : TRUE
             prices == {p.price : p \in {q \in products : q.id = l.product_id}}
             price == IF prices = {} THEN 0 ELSE CHOOSE x \in prices : TRUE
         IN  price * l.quantity + WorthOfLines(ls \ {l}, products)

\* C21: subtotal and total are derived from the store at read time: after
\* UpdateProduct has changed the price of a product, the total of every invoice
\* computed on the next GetInvoice is the one at the price the update
\* submitted; no earlier total is retained.
C21_TotalAtReadTime ==
    [][(last'.op = "updateProduct" /\ last'.status = 200)
          => \A row \in db'.invoices :
                 /\ ~GetInvoice(db', row.id).err
                 /\ Total(GetInvoice(db', row.id).invoice)
                      = WorthOfLines(LinesOfInvoices(db', {row.id}),
                                     {[id |-> last'.id, price |-> last'.body.price]})
                          - row.discount + row.penalty]_vars

\* The product has just been given the price 2, above the price 1 it was
\* created with, and invoice 1, of two lines of quantity 2 and a discount of 1,
\* is worth 7.
C21_Witness ==
    /\ last.op = "updateProduct"
    /\ last.status = 200
    /\ last.body.price = 2
    /\ Cardinality(LinesOfInvoices(db, {1})) = 2
    /\ \A l \in LinesOfInvoices(db, {1}) : l.quantity = 2 /\ l.product_id = last.id
    /\ ~GetInvoice(db, 1).err
    /\ GetInvoice(db, 1).invoice.discount = 1
    /\ Total(GetInvoice(db, 1).invoice) = 7

\* C27: every stored invoice line has a quantity of at least 1, and a line
\* created without a quantity is stored with the quantity 1.
C27_QuantityAtLeastOne ==
    /\ \A l \in db.invoiceLines : l.quantity >= 1
    /\ (/\ last.op = "createInvoice"
        /\ last.status = 201
        /\ \A k \in DOMAIN last.body : last.body[k].quantity = 0)
           => \A l \in LinesOfInvoices(db, {last.id}) : l.quantity = 1

\* ------------------------------------------------- primary keys, under Spec
\* The table each create handler writes its record to.
TableCreated(s, op) ==
    CASE op = "createCompany" -> s.companies
      [] op = "createProduct" -> s.products
      [] op = "createRemitInformation" -> s.remits
      [] op = "createInvoice" -> s.invoices

\* No two rows of one table of s have the same id.
DistinctIds(s) ==
    \A t \in Tables : \A a \in s[t], b \in s[t] : a.id = b.id => a = b

\* C22: every successful create gives the record a non-zero id that no record
\* of the same type stored at that moment has, and the ids of the stored
\* records of one type are pairwise distinct in every reachable state.
C22_FreshIds ==
    [][/\ DistinctIds(db) /\ DistinctIds(db')
       /\ (last'.op \in Creates /\ last'.status = 201)
             => /\ last'.id # 0
                /\ ~HasId(TableCreated(db, last'.op), last'.id)
                /\ HasId(TableCreated(db', last'.op), last'.id)]_vars

\* A second company has been created next to the first.
C22_Witness ==
    /\ last.op = "createCompany"
    /\ last.status = 201
    /\ last.id = 2
    /\ {c.id : c \in db.companies} = {1, 2}

\* ----------------------------------------------------------------- SpecRace
\* DeleteInvoice and DeleteRemitInformation, statement by statement: each of the
\* two statements runs on r.db and is committed on its own, so a request served
\* on another goroutine may commit between them.
deleteInvoiceBegin(ids) ==
    /\ deleting = NoDelete
    /\ \E id \in ids :
          /\ db' = DeleteInvoiceLinesWhere(db, id)
          /\ deleting' = [pc |-> "row", of |-> "invoice", id |-> id,
                          before |-> LinesOfInvoices(db, {id})]
    /\ UNCHANGED <<foreignKeys, uuidSeq, minted, last, tx, rd, view, req, users>>

deleteInvoiceEnd ==
    /\ deleting.pc = "row"
    /\ deleting.of = "invoice"
    /\ \E r \in {DeleteInvoiceRow(db, foreignKeys, deleting.id)} :
          /\ db' = r.store
          /\ last' = Reply("deleteInvoice", deleting.id, IF r.err THEN 500 ELSE 204,
                           deleting.before, << >>, SentByDelete(r.err))
    /\ deleting' = NoDelete
    /\ UNCHANGED <<foreignKeys, uuidSeq, minted, tx, rd, view, req, users>>

deleteRemitBegin(ids) ==
    /\ deleting = NoDelete
    /\ \E id \in ids :
          /\ db' = DeleteRemitLinesWhere(db, id)
          /\ deleting' = [pc |-> "row", of |-> "remit", id |-> id,
                          before |-> LinesOfRemit(db, id)]
    /\ UNCHANGED <<foreignKeys, uuidSeq, minted, last, tx, rd, view, req, users>>

deleteRemitEnd ==
    /\ deleting.pc = "row"
    /\ deleting.of = "remit"
    /\ \E r \in {DeleteRemitRow(db, foreignKeys, deleting.id)} :
          /\ db' = r.store
          /\ last' = Reply("deleteRemitInformation", deleting.id,
                           IF r.err THEN 500 ELSE Deleted(FALSE),
                           deleting.before, << >>, SentByDelete(r.err))
    /\ deleting' = NoDelete
    /\ UNCHANGED <<foreignKeys, uuidSeq, minted, tx, rd, view, req, users>>

\* SpecRace: over the store of SpecReads and one invoice with a line, invoice 1
\* and remit information 1 are deleted statement by statement while both are
\* updated and invoices are created by other requests.
RaceInvoiceBodies ==
    {InvoiceBody(ZeroUUID, 1, 1, 2,
                 [i \in 1..n |-> [id |-> 0, product_id |-> 1, quantity |-> 1]]) :
        n \in {0, 1}}

RaceStore ==
    CreateInvoice(ReadsStore, FALSE,
                  CHOOSE b \in RaceInvoiceBodies : Len(b.invoice_lines) = 1, 1).store

RaceLimits ==
    [companies |-> 2, products |-> 1, remits |-> 1, remitLines |-> 3,
     invoices |-> 2, invoiceLines |-> 3]

InitRace ==
    /\ foreignKeys \in BOOLEAN
    /\ db = RaceStore
    /\ uuidSeq = 1
    /\ minted = {}
    /\ last = NoRequest
    /\ tx = NoTx
    /\ rd = NoRead
    /\ view = NoView
    /\ req = NoReq
    /\ users = NoUsers
    /\ deleting = NoDelete

NextRace ==
    \/ deleteInvoiceBegin({1})
    \/ deleteInvoiceEnd
    \/ deleteRemitBegin({1})
    \/ deleteRemitEnd
    \/ createInvoice(RaceInvoiceBodies, RaceLimits)
    \/ updateInvoice({1}, RaceInvoiceBodies, RaceLimits)
    \/ updateRemitInformation({1}, RemitBodies, RaceLimits)

SpecRace == InitRace /\ [][NextRace]_vars

\* C23: in every reachable state every stored invoice line names a stored
\* invoice and every stored remit information line names a stored remit
\* information.
C23_LinesHaveParents ==
    /\ \A l \in db.invoiceLines : HasId(db.invoices, l.invoice_id)
    /\ \A l \in db.remitLines : HasId(db.remits, l.remit_information_id)

\* ------------------------------------------- full replacement, under SpecApi
\* The body a handler decoded from the request the mux holds.
Submitted == Decoded(req.body)

RemitLineContent(l) == [key |-> l.key, value |-> l.value]

\* Two sequences of remit information lines are the same collection.
SameRemitLines(xs, ys) ==
    /\ Len(xs) = Len(ys)
    /\ \A i \in DOMAIN xs :
           Cardinality({j \in DOMAIN xs : RemitLineContent(xs[j]) = RemitLineContent(xs[i])})
             = Cardinality({j \in DOMAIN ys : RemitLineContent(ys[j]) = RemitLineContent(xs[i])})

\* C25: after UpdateRemitInformation(r, Y) succeeds on a stored remit
\* information r, GetRemitInformation(r) returns exactly the lines Y of the
\* request.
C25_UpdateReplacesRemitLines ==
    [][(/\ last'.op = "updateRemitInformation"
        /\ last'.status = 200
        /\ HasId(db.remits, last'.id))
           => /\ ~GetRemitInformation(db', last'.id).err
              /\ SameRemitLines(GetRemitInformation(db', last'.id).row.Lines,
                                last'.body.lines)]_vars

\* ------------------------------------------ the life of an invoice, under SpecLines
\* C26, for invoices: after a delete request for a stored invoice (one with
\* lines) has succeeded, no invoice with that id is stored and a GET of that id
\* answers 404, until a later create.
C26_DeletedStaysGone ==
    [][(last.op = "deleteInvoice" /\ last.status = 204 /\ last.before # {})
          => /\ ~HasId(db.invoices, last.id)
             /\ GetInvoice(db, last.id).err
             /\ last'.op # "createInvoice" => ~HasId(db'.invoices, last.id)
             /\ (last'.op = "getInvoice" /\ last'.id = last.id)
                   => last'.status = 404]_vars

\* C28: the UUID of a stored invoice is fixed at creation: after an
\* UpdateInvoice of an invoice stored with a non-zero UUID, whether or not the
\* request carries a uuid, GetInvoice returns the UUID stored before.
C28_UUIDFixedAtCreation ==
    [][(/\ last'.op = "updateInvoice"
        /\ last'.status = 200
        /\ HasId(db.invoices, last'.id)
        /\ Row(db.invoices, last'.id).uuid # ZeroUUID)
           => /\ ~GetInvoice(db', last'.id).err
              /\ GetInvoice(db', last'.id).invoice.uuid
                   = Row(db.invoices, last'.id).uuid]_vars

\* C30: CreateInvoice and UpdateInvoice change only the invoice row and the
\* lines of that invoice: companies, products, remit informations and their
\* lines, and every other invoice with its lines, are after the call what they
\* were before.
C30_InvoiceWritesOnlyItself ==
    [][(last'.op \in {"createInvoice", "updateInvoice"} /\ last'.status \in {200, 201})
          => /\ db'.companies = db.companies
             /\ db'.products = db.products
             /\ db'.remits = db.remits
             /\ db'.remitLines = db.remitLines
             /\ {i \in db'.invoices : i.id # last'.id}
                  = {i \in db.invoices : i.id # last'.id}
             /\ {l \in db'.invoiceLines : l.invoice_id # last'.id}
                  = {l \in db.invoiceLines : l.invoice_id # last'.id}]_vars

\* ------------------------------------------ the references of an invoice, under Spec
\* C29: in every reachable state the remit information id, the company id and the
\* client id of every stored invoice each name a stored record.
C29_InvoiceReferencesStored ==
    \A i \in db.invoices :
        /\ HasId(db.remits, i.remit_information_id)
        /\ HasId(db.companies, i.company_id)
        /\ HasId(db.companies, i.client_id)

\* ---------------------------------------------------------------- SpecIdent
\* SpecIdent: Invoice.Identification over invoices whose number is nil, zero,
\* positive or negative.
IdentInvoices ==
    {[number |-> n, uuid |-> u] :
        n \in {NilNumber} \cup {NumberOf(k) : k \in (0 - MaxNumber)..MaxNumber},
        u \in {ZeroUUID, 1, 10, 16, MaxIdentUUID}}

InitIdent ==
    /\ foreignKeys = FALSE
    /\ db = EmptyStore
    /\ uuidSeq = 0
    /\ minted = {}
    /\ last = NoRequest
    /\ tx = NoTx
    /\ rd = NoRead
    /\ view \in {[invoice |-> i, text |-> << >>, done |-> FALSE] : i \in IdentInvoices}
    /\ req = NoReq
    /\ users = NoUsers
    /\ deleting = NoDelete

NextIdent == renderIdentification

SpecIdent == InitIdent /\ [][NextIdent]_vars

\* The number a text of decimal digits writes.
RECURSIVE DecimalValue(_)
DecimalValue(text) ==
    IF text = << >> THEN 0
    ELSE 10 * DecimalValue(SubSeq(text, 1, Len(text) - 1))
           + (CHOOSE d \in 0..9 : Characters[d + 1] = text[Len(text)])

\* text is the decimal form of n: digits only, no leading zero, a minus sign
\* before the digits of a negative number.
IsDecimalOf(text, n) ==
    LET digits == IF n < 0 THEN Tail(text) ELSE text
    IN  /\ text # << >>
        /\ n < 0 => text[1] = "-"
        /\ digits # << >>
        /\ \A k \in DOMAIN digits : \E d \in 0..9 : Characters[d + 1] = digits[k]
        /\ Len(digits) > 1 => digits[1] # "0"
        /\ DecimalValue(digits) = (IF n < 0 THEN 0 - n ELSE n)

\* text is the string form of the UUID u: 36 characters, hyphens at places 9,
\* 14, 19 and 24, hexadecimal digits elsewhere, zeros but for the last two, which
\* write u.
IsUUIDStringOf(text, u) ==
    /\ Len(text) = 36
    /\ \A k \in {9, 14, 19, 24} : text[k] = "-"
    /\ \A k \in (1..34) \ {9, 14, 19, 24} : text[k] = "0"
    /\ \E hi \in 0..15, lo \in 0..15 :
           /\ text[35] = Characters[hi + 1]
           /\ text[36] = Characters[lo + 1]
           /\ u = 16 * hi + lo

\* C19: Invoice.Identification() returns the decimal form of the sequence
\* number when the number is set and not zero, and the string form of the UUID
\* in every other case (number nil or equal to zero).
C19_Identification ==
    view.done =>
        IF view.invoice.number.set /\ view.invoice.number.value # 0
        THEN IsDecimalOf(view.text, view.invoice.number.value)
        ELSE IsUUIDStringOf(view.text, view.invoice.uuid)

\* An invoice whose number is set to zero, identified by its UUID.
C19_Witness ==
    /\ view.done
    /\ view.invoice.number = NumberOf(0)
    /\ view.invoice.uuid = 10
    /\ view.text[36] = "a"
    /\ Len(view.text) = 36

\* -------------------------------------------------- UUIDs, under SpecConc
\* C10: two invoices created from requests that carried no uuid were stored with
\* UUIDs that are not the zero UUID and differ from each other.
C10_MintedUUIDsDistinct ==
    \A a \in minted, b \in minted :
        /\ a.uuid # ZeroUUID
        /\ a.id # b.id => a.uuid # b.uuid

\* Two invoices created from requests without a uuid.
C10_Witness ==
    /\ Cardinality({m.id : m \in minted}) = 2
    /\ last.op = "createInvoice"
    /\ last.status = 201

====
